---- MODULE Spec2Model ----
(***************************************************************************)
(* Bitcoin-side collateral vault of wrapYield (btc-vaultero + python-api). *)
(*                                                                         *)
(* The model covers the two script-path-only Taproot outputs (Escrow and   *)
(* Collateral), the four leaf scripts, the service handlers that build,    *)
(* sign and broadcast the spending transactions, the borrower's signature  *)
(* file handed to the lender, and the node the handlers broadcast to.      *)
(*                                                                         *)
(* BTC amounts (requests, RPC answers) are integers in units of 0.001 BTC,  *)
(* transaction values are satoshis.  A transaction input's nSequence is    *)
(* either DefaultSequence (0xffffffff, relative locktime disabled) or a    *)
(* block count.  A hash commitment (tap leaf / tap branch / *)
(* tweaked output key) is modelled by the data it commits to.              *)
(***************************************************************************)
EXTENDS Integers, Sequences, FiniteSets, TLC

(***************************************************************************)
(* Bounds of the model.                                                    *)
(***************************************************************************)
MaxTimelock == 2          \* relative timelocks range over 1..MaxTimelock
MaxEvmBlocks == 40        \* configured timelocks range over 1..MaxEvmBlocks EVM blocks

(***************************************************************************)
(* Values taken from the repository's scenario.                            *)
(***************************************************************************)
EscrowFunding == 501      \* 0.501 BTC sent to the escrow address
CollateralAmount == 490   \* 0.49 BTC locked as collateral
OrigFee == 10             \* 0.01 BTC origination fee
TxFee == 1                \* 0.001 BTC default exit / release / capture fee
SatPerUnit == 100000      \* satoshis in 0.001 BTC

\* bitcoinutils.utils.to_satoshis
to_satoshis(btc) == btc * SatPerUnit

BorrowerKey == "B"
LenderKey == "L"
Keys == {BorrowerKey, LenderKey}

\* nSequence of a TxInput that was never given one: 0xffffffff.
DefaultSequence == 0 - 1

Timelocks == 1 .. MaxTimelock

\* class LoanStatus(Enum), and the default of Loan.status.
LoanStatus ==
    {"PENDING", "ACTIVE", "LOAN_INIT_FAILED", "REPAID", "DEFAULTED", "SEIZED", "UNKNOWN"}
DefaultStatus == "UNKNOWN"
\* Confirmation counts are kept exactly up to MaxConf and saturate there:
\* no rule of the node or of the scripts compares them with anything larger
\* than a timelock.
MaxConf == MaxTimelock + 1

(***************************************************************************)
(* Secrets and their SHA-256 commitments.                                  *)
(***************************************************************************)
PreimageBorrower == "hello_from_borrower"
PreimageLender == "hello_from_lender"
WrongPreimage == "hello_from_nobody"
Preimages == {PreimageBorrower, PreimageLender, WrongPreimage}

\* hashlib.sha256(b).hexdigest(): injective on the byte strings of the model.
Sha256Hex(b) == "sha256:" \o b

PreimageHashBorrower == Sha256Hex(PreimageBorrower)
PreimageHashLender == Sha256Hex(PreimageLender)
Hashes == {PreimageHashBorrower, PreimageHashLender}

(***************************************************************************)
(* Script elements and witness / stack items.                              *)
(***************************************************************************)
Op(name) == [op |-> name, s |-> "", n |-> 0]
PushData(hex) == [op |-> "PUSH", s |-> hex, n |-> 0]
PushNum(k) == [op |-> "PUSHNUM", s |-> "", n |-> k]

NoMsg == [none |-> TRUE]
NoCtrl == [none |-> TRUE]

BytesItem(b) == [t |-> "bytes", s |-> b, n |-> 0, m |-> NoMsg, sc |-> <<>>, cb |-> NoCtrl]
NumItem(k) == [t |-> "num", s |-> "", n |-> k, m |-> NoMsg, sc |-> <<>>, cb |-> NoCtrl]
SigItem(signer, msg) == [t |-> "sig", s |-> signer, n |-> 0, m |-> msg, sc |-> <<>>, cb |-> NoCtrl]
ScriptItem(script) == [t |-> "script", s |-> "", n |-> 0, m |-> NoMsg, sc |-> script, cb |-> NoCtrl]
CtrlItem(ctrl) == [t |-> "ctrl", s |-> "", n |-> 0, m |-> NoMsg, sc |-> <<>>, cb |-> ctrl]

(***************************************************************************)
(* vaultero/utils.py: leaf scripts and script-path-only addresses.         *)
(***************************************************************************)
NumsKey == "NUMS"

\* Faulty variant of get_leaf_scripts_output_0: the first leaf asks for one
\* block more than borrower_timelock.
LeafScriptsOutput0LongerCsv(borrower_pub, lender_pub, preimage_hash_borrower, borrower_timelock) ==
    << << PushNum(borrower_timelock + 1),
          Op("OP_CHECKSEQUENCEVERIFY"),
          Op("OP_DROP"),
          PushData(borrower_pub),
          Op("OP_CHECKSIG") >>,
       << Op("OP_SHA256"),
          PushData(preimage_hash_borrower),
          Op("OP_EQUALVERIFY"),
          PushData(lender_pub),
          Op("OP_CHECKSIG"),
          PushData(borrower_pub),
          Op("OP_CHECKSIGADD"),
          Op("OP_2"),
          Op("OP_NUMEQUALVERIFY"),
          Op("OP_TRUE") >> >>

\* Faulty variant of get_leaf_scripts_output_0: the second leaf drops the
\* preimage instead of comparing its hash.
LeafScriptsOutput0NoHashlock(borrower_pub, lender_pub, preimage_hash_borrower, borrower_timelock) ==
    << << PushNum(borrower_timelock),
          Op("OP_CHECKSEQUENCEVERIFY"),
          Op("OP_DROP"),
          PushData(borrower_pub),
          Op("OP_CHECKSIG") >>,
       << Op("OP_DROP"),
          PushData(lender_pub),
          Op("OP_CHECKSIG"),
          PushData(borrower_pub),
          Op("OP_CHECKSIGADD"),
          Op("OP_2"),
          Op("OP_NUMEQUALVERIFY"),
          Op("OP_TRUE") >> >>

get_leaf_scripts_output_0(borrower_pub, lender_pub, preimage_hash_borrower, borrower_timelock) ==
    LET csv_script_borrower ==
            << PushNum(borrower_timelock),
               Op("OP_CHECKSEQUENCEVERIFY"),
               Op("OP_DROP"),
               PushData(borrower_pub),
               Op("OP_CHECKSIG") >>
        hashlock_and_multisig_script ==
            << Op("OP_SHA256"),
               PushData(preimage_hash_borrower),
               Op("OP_EQUALVERIFY"),
               PushData(lender_pub),
               Op("OP_CHECKSIG"),
               PushData(borrower_pub),
               Op("OP_CHECKSIGADD"),
               Op("OP_2"),
               Op("OP_NUMEQUALVERIFY"),
               Op("OP_TRUE") >>
    IN  << csv_script_borrower, hashlock_and_multisig_script >>

\* Faulty variant of get_leaf_scripts_output_1: the second leaf also waits
\* for lender_timelock.
LeafScriptsOutput1ReleaseTimelocked(borrower_pub, lender_pub, preimage_hash_lender, lender_timelock) ==
    << << PushNum(lender_timelock),
          Op("OP_CHECKSEQUENCEVERIFY"),
          Op("OP_DROP"),
          PushData(lender_pub),
          Op("OP_CHECKSIG") >>,
       << PushNum(lender_timelock),
          Op("OP_CHECKSEQUENCEVERIFY"),
          Op("OP_DROP"),
          Op("OP_SHA256"),
          PushData(preimage_hash_lender),
          Op("OP_EQUALVERIFY"),
          PushData(borrower_pub),
          Op("OP_CHECKSIG") >> >>

\* Faulty variant of get_leaf_scripts_output_1: the first leaf asks for one
\* block more than lender_timelock.
LeafScriptsOutput1LongerCsv(borrower_pub, lender_pub, preimage_hash_lender, lender_timelock) ==
    << << PushNum(lender_timelock + 1),
          Op("OP_CHECKSEQUENCEVERIFY"),
          Op("OP_DROP"),
          PushData(lender_pub),
          Op("OP_CHECKSIG") >>,
       << Op("OP_SHA256"),
          PushData(preimage_hash_lender),
          Op("OP_EQUALVERIFY"),
          PushData(borrower_pub),
          Op("OP_CHECKSIG") >> >>

get_leaf_scripts_output_1(borrower_pub, lender_pub, preimage_hash_lender, lender_timelock) ==
    LET csv_script_lender ==
            << PushNum(lender_timelock),
               Op("OP_CHECKSEQUENCEVERIFY"),
               Op("OP_DROP"),
               PushData(lender_pub),
               Op("OP_CHECKSIG") >>
        hashlock_and_borrower_siglock_script ==
            << Op("OP_SHA256"),
               PushData(preimage_hash_lender),
               Op("OP_EQUALVERIFY"),
               PushData(borrower_pub),
               Op("OP_CHECKSIG") >>
    IN  << csv_script_lender, hashlock_and_borrower_siglock_script >>

\* PublicKey.get_taproot_address(tree) for tree = [[a, b]]: the output key
\* commits to the internal key and to the tap branch of the two leaves.
TaprootAddress(internal_key, tree) ==
    [kind |-> "p2tr", key |-> internal_key, root |-> << tree[1], tree[2] >>]

\* PublicKey.get_address(): the party's standard address.
StandardAddress(pub) == [kind |-> "p2pkh", key |-> pub, root |-> <<>>]

(***************************************************************************)
(* State.                                                                  *)
(***************************************************************************)
VARIABLES
    loan,       \* the agreed loan parameters: both relative timelocks
    utxo,       \* node: per outpoint, the output (if any) and its confirmations
    spend,      \* node: per outpoint, the transaction spending it (if any)
    bundle,     \* the borrower_signature_<loan_id>.json file, as the lender reads it
    exported,   \* generate_borrower_signature has written the file with the borrower's signature
    result,     \* outcome of the last service call; for the lender's call also
                \* the file it read and the signature and control block it computed
    built,      \* outcome of the last call of a transaction / script / address
                \* builder: what it had assembled when it ended and what it returned
    query,      \* the get_transaction_status call in progress or last answered:
                \* what it has read from the node so far and what it returned
    service     \* the BitcoinRPCService object: its connection, its wallet flag
                \* and the outcome of the last access of its rpc property

\* Faulty variant of get_nums_p2tr_addr_0: the internal key changes once the
\* node has the escrow funding in a block.
NumsP2trAddr0AfterFunding(borrower_pub, lender_pub, preimage_hash_borrower, borrower_timelock) ==
    LET scripts == get_leaf_scripts_output_0(borrower_pub, lender_pub,
                                             preimage_hash_borrower, borrower_timelock)
    IN  TaprootAddress(IF utxo["escrow"].st = "confirmed" THEN "" ELSE NumsKey,
                       << scripts[1], scripts[2] >>)

get_nums_p2tr_addr_0(borrower_pub, lender_pub, preimage_hash_borrower, borrower_timelock) ==
    LET scripts == get_leaf_scripts_output_0(borrower_pub, lender_pub,
                                             preimage_hash_borrower, borrower_timelock)
    IN  TaprootAddress(NumsKey, << scripts[1], scripts[2] >>)

get_nums_p2tr_addr_1(borrower_pub, lender_pub, preimage_hash_lender, lender_timelock) ==
    LET scripts == get_leaf_scripts_output_1(borrower_pub, lender_pub,
                                             preimage_hash_lender, lender_timelock)
    IN  TaprootAddress(NumsKey, << scripts[1], scripts[2] >>)

\* P2trAddress.is_odd(): the parity of the tweaked output key, a fixed
\* function of what the key commits to.  Here: the parity of the numbers
\* pushed by the committed leaves.
RECURSIVE ScriptSum(_)
ScriptSum(script) ==
    IF script = <<>> THEN 0 ELSE Head(script).n + ScriptSum(Tail(script))

IsOdd(addr) == (ScriptSum(addr.root[1]) + ScriptSum(addr.root[2])) % 2 = 1

\* ControlBlock(internal key, tree, leaf index, is_odd): the merkle path of
\* the leaf at leaf_index in [[a, b]] is the other leaf.  leaf_index is 0-based.
ControlBlock(internal_key, tree, leaf_index, is_odd) ==
    [key |-> internal_key, path |-> tree[2 - leaf_index], odd |-> is_odd]

(***************************************************************************)
(* Transactions.                                                           *)
(***************************************************************************)
Outpoints == {"escrow", "collateral"}

TxOutput(value, to) == [value |-> value, to |-> to]
\* Transaction([TxInput(txid, vout)], outputs, has_segwit=True)
Transaction(outpoint, sequence, outputs) ==
    [in |-> outpoint, sequence |-> sequence, outs |-> outputs]

RECURSIVE OutSum(_)
OutSum(outs) == IF outs = <<>> THEN 0 ELSE Head(outs).value + OutSum(Tail(outs))

\* The BIP-341 script-path signature message: the transaction, the spent
\* output's script-pubkey and amount, and the leaf script.
Sighash(tx, spk, amount, leaf) == [tx |-> tx, spk |-> spk, amount |-> amount, leaf |-> leaf]

\* PrivateKey.sign_taproot_input(tx, 0, [spk], [amount], script_path=True,
\*                               tapleaf_script=leaf, tweak=False)
sign_taproot_input(priv, tx, spk, amount, leaf) ==
    SigItem(priv, Sighash(tx, spk, amount, leaf))

(***************************************************************************)
(* Tapscript evaluation of the opcodes the four leaves use.                *)
(* ctx.msg is the signature message of the spending input, ctx.sequence    *)
(* the input's nSequence.                                                  *)
(***************************************************************************)
Failed == [ok |-> FALSE, st |-> <<>>]
Running(st) == [ok |-> TRUE, st |-> st]

Top(st) == st[Len(st)]
Pop(st, k) == SubSeq(st, 1, Len(st) - k)

IsEmptyItem(x) == (x.t = "num" /\ x.n = 0) \/ (x.t = "bytes" /\ x.s = "")

\* Schnorr verification of sig under the x-only key pub for the message msg.
SchnorrVerify(sig, pub, msg) ==
    sig.t = "sig" /\ pub.t = "bytes" /\ sig.s = pub.s /\ sig.m = msg

\* OP_SHA256 of a stack element.
Sha256Item(x) ==
    IF x.t = "bytes" THEN BytesItem(Sha256Hex(x.s)) ELSE BytesItem("sha256:other")

ExecOp(e, st, ctx) ==
    CASE e.op = "PUSH" -> Running(Append(st, BytesItem(e.s)))
      [] e.op = "PUSHNUM" -> Running(Append(st, NumItem(e.n)))
      [] e.op = "OP_2" -> Running(Append(st, NumItem(2)))
      [] e.op = "OP_TRUE" -> Running(Append(st, NumItem(1)))
      [] e.op = "OP_DROP" ->
            IF Len(st) < 1 THEN Failed ELSE Running(Pop(st, 1))
      [] e.op = "OP_SHA256" ->
            IF Len(st) < 1 THEN Failed
            ELSE Running(Append(Pop(st, 1), Sha256Item(Top(st))))
      [] e.op = "OP_EQUALVERIFY" ->
            IF Len(st) < 2 THEN Failed
            ELSE IF st[Len(st)] = st[Len(st) - 1] THEN Running(Pop(st, 2)) ELSE Failed
      [] e.op = "OP_NUMEQUALVERIFY" ->
            IF Len(st) < 2 THEN Failed
            ELSE IF st[Len(st)].t = "num" /\ st[Len(st) - 1].t = "num"
                    /\ st[Len(st)].n = st[Len(st) - 1].n
                 THEN Running(Pop(st, 2)) ELSE Failed
      [] e.op = "OP_CHECKSIG" ->
            \* stack: ... sig pubkey
            IF Len(st) < 2 THEN Failed
            ELSE LET pub == st[Len(st)]
                     sig == st[Len(st) - 1]
                 IN  IF IsEmptyItem(sig) THEN Running(Append(Pop(st, 2), NumItem(0)))
                     ELSE IF SchnorrVerify(sig, pub, ctx.msg)
                          THEN Running(Append(Pop(st, 2), NumItem(1)))
                          ELSE Failed
      [] e.op = "OP_CHECKSIGADD" ->
            \* stack: ... sig n pubkey
            IF Len(st) < 3 THEN Failed
            ELSE LET pub == st[Len(st)]
                     num == st[Len(st) - 1]
                     sig == st[Len(st) - 2]
                 IN  IF num.t # "num" THEN Failed
                     ELSE IF IsEmptyItem(sig) THEN Running(Append(Pop(st, 3), num))
                     ELSE IF SchnorrVerify(sig, pub, ctx.msg)
                          THEN Running(Append(Pop(st, 3), NumItem(num.n + 1)))
                          ELSE Failed
      [] e.op = "OP_CHECKSEQUENCEVERIFY" ->
            \* BIP-112: the operand stays on the stack.
            IF Len(st) < 1 THEN Failed
            ELSE LET operand == Top(st)
                 IN  IF operand.t # "num" \/ operand.n < 0 THEN Failed
                     ELSE IF ctx.sequence = DefaultSequence THEN Failed
                     ELSE IF operand.n > ctx.sequence THEN Failed
                     ELSE Running(st)
      [] OTHER -> Failed

ExecNext(e, state, ctx) == IF ~state.ok THEN Failed ELSE ExecOp(e, state.st, ctx)

\* A tapscript succeeds when it runs to its end and leaves exactly one
\* element, which is true.  run[n] is the state after the first n elements.
EvalScript(script, stack, ctx) ==
    \E sc \in {script}, c \in {ctx} :
        LET run[n \in 0 .. Len(sc)] ==
                IF n = 0 THEN Running(stack)
                ELSE CHOOSE next \in {ExecNext(sc[n], state, c) : state \in {run[n - 1]}} : TRUE
        IN  \E final \in {run[Len(sc)]} :
                /\ final.ok
                /\ Len(final.st) = 1
                /\ ~IsEmptyItem(final.st[1])

vars == << loan, utxo, spend, bundle, exported, result, built, query, service >>
chain == << utxo, spend >>

NoAddr == [kind |-> "none", key |-> "", root |-> <<>>]
NoTx == [in |-> "", sequence |-> DefaultSequence, outs |-> <<>>]
NoUtxo == [st |-> "none", addr |-> NoAddr, amount |-> 0, conf |-> 0]
NoSpend == [st |-> "none", tx |-> NoTx, witness |-> <<>>]
NoResponse ==
    [txid |-> "", confirmed |-> FALSE, confirmations |-> 0, status |-> "", error |-> ""]
None == [known |-> FALSE, confirmations |-> 0]
\* BitcoinRPCService.__init__: no connection, wallet not initialized.
\* (rpc_connection is "None", "node" for the connection to the node's base
\* endpoint or "wallet" for the one to the wallet endpoint; probed tells
\* whether getblockchaininfo has answered on a connection of this object;
\* access is the outcome of the last access of the rpc property.)
NewService ==
    [rpc_connection |-> "None", wallet_initialized |-> FALSE, probed |-> FALSE,
     access |-> "", error |-> ""]
\* gettxout's answer for an output that does not exist or is spent, and the
\* dictionary monitor_utxo_status returns.
NoTxOut == [found |-> FALSE, value |-> 0, confirmations |-> 0, address |-> NoAddr]
NoUtxoStatus ==
    [txid |-> "", is_spent |-> FALSE, confirmations |-> 0, value |-> 0,
     address |-> NoAddr, error |-> ""]
\* (is_spent is what is_utxo_spent returned, failed whether a gettxout of the
\* call raised, utxo_status what monitor_utxo_status returned.)
NoQuery ==
    [pc |-> "idle", op |-> "", txid |-> "", tx_info |-> None, response |-> NoResponse,
     is_spent |-> FALSE, failed |-> FALSE, utxo_status |-> NoUtxoStatus]
\* (tx and witnesses are the inputs and outputs, and the witness list, of the
\* Transaction object a transaction builder had constructed;
\* returned is the value a method of Loan returned, as Python prints it,
\* blocks the block count get_timelock returned.)
NoBuilt ==
    [op |-> "", ok |-> FALSE, error |-> "", tx |-> NoTx, witnesses |-> <<>>,
     scripts |-> <<>>, addr |-> NoAddr, returned |-> "None", blocks |-> 0]

\* The scripts and addresses of the loan as both parties derive them.
EscrowScripts ==
    get_leaf_scripts_output_0(BorrowerKey, LenderKey, PreimageHashBorrower, loan.borrower_timelock)
CollateralScripts ==
    get_leaf_scripts_output_1(BorrowerKey, LenderKey, PreimageHashLender, loan.lender_timelock)
EscrowAddress ==
    get_nums_p2tr_addr_0(BorrowerKey, LenderKey, PreimageHashBorrower, loan.borrower_timelock)
CollateralAddress ==
    get_nums_p2tr_addr_1(BorrowerKey, LenderKey, PreimageHashLender, loan.lender_timelock)

(***************************************************************************)
(* The node behind bitcoin_rpc: mempool acceptance of a raw transaction.   *)
(***************************************************************************)
WitnessWellFormed(witness) ==
    /\ Len(witness) >= 2
    /\ witness[Len(witness)].t = "ctrl"
    /\ witness[Len(witness) - 1].t = "script"

WitnessScript(witness) == witness[Len(witness) - 1].sc
WitnessCtrl(witness) == witness[Len(witness)].cb
WitnessArgs(witness) == SubSeq(witness, 1, Len(witness) - 2)

\* BIP-341 script-path commitment: the leaf and the control block's path
\* rebuild the tap branch (which hashes its two children in sorted order, so
\* either may be the leaf), the internal key tweaked by it is the output
\* key, and the control block states that key's parity.
TaprootCommits(addr, script, ctrl) ==
    /\ addr.kind = "p2tr"
    /\ ctrl.key = addr.key
    /\ \/ << script, ctrl.path >> = addr.root
       \/ << ctrl.path, script >> = addr.root
    /\ ctrl.odd = IsOdd(addr)

ScriptPathValid(tx, witness, out) ==
    /\ WitnessWellFormed(witness)
    /\ TaprootCommits(out.addr, WitnessScript(witness), WitnessCtrl(witness))
    /\ EvalScript(WitnessScript(witness), WitnessArgs(witness),
                  [msg |-> Sighash(tx, out.addr, out.amount, WitnessScript(witness)),
                   sequence |-> tx.sequence])

\* BIP-68: an input whose nSequence encodes N blocks enters the mempool only
\* when the spent output has at least N confirmations.
Bip68Final(tx, out) ==
    tx.sequence = DefaultSequence
        \/ (out.st = "confirmed" /\ out.conf >= tx.sequence)
        \/ tx.sequence = 0

NodeVerdict(tx, witness) ==
    IF tx.in \notin Outpoints THEN "bad-txns-inputs-missingorspent"
    ELSE LET out == utxo[tx.in]
             sp == spend[tx.in]
         IN  IF out.st = "none" THEN "bad-txns-inputs-missingorspent"
             ELSE IF sp.st = "confirmed" /\ sp.tx = tx
                  THEN "Transaction outputs already in utxo set"
             ELSE IF sp.st = "confirmed" THEN "bad-txns-inputs-missingorspent"
             ELSE IF sp.st = "mempool" /\ sp.tx = tx THEN "txn-already-in-mempool"
             ELSE IF sp.st = "mempool" THEN "txn-mempool-conflict"
             ELSE IF ~Bip68Final(tx, out) THEN "non-BIP68-final"
             ELSE IF OutSum(tx.outs) > out.amount THEN "bad-txns-in-belowout"
             ELSE IF OutSum(tx.outs) = out.amount THEN "min relay fee not met"
             ELSE IF ~ScriptPathValid(tx, witness, out)
                  THEN "mandatory-script-verify-flag-failed"
             ELSE "ok"

\* The node's state after sendrawtransaction answered verdict.  An accepted
\* tx waits in the mempool, and so does the collateral output when tx is the
\* escrow-to-collateral transaction (its second output pays a Taproot
\* address); a rejected one changes nothing.
NewOutputs(tx, verdict) ==
    IF verdict = "ok" /\ tx.in = "escrow" /\ Len(tx.outs) = 2 /\ tx.outs[2].to.kind = "p2tr"
    THEN [utxo EXCEPT !["collateral"] =
            [st |-> "mempool", addr |-> tx.outs[2].to, amount |-> tx.outs[2].value, conf |-> 0]]
    ELSE utxo

NewSpend(tx, witness, verdict) ==
    IF verdict = "ok"
    THEN [spend EXCEPT ![tx.in] = [st |-> "mempool", tx |-> tx, witness |-> witness]]
    ELSE spend

\* generatetoaddress(1, ...): every mempool transaction confirms, every
\* confirmed output gains a confirmation.
MinedUtxo(u) ==
    [o \in Outpoints |->
        IF u[o].st = "mempool" THEN [u[o] EXCEPT !.st = "confirmed", !.conf = 1]
        ELSE IF u[o].st = "confirmed" /\ u[o].conf < MaxConf
             THEN [u[o] EXCEPT !.conf = u[o].conf + 1]
        ELSE u[o]]

MinedSpend(sp) ==
    [o \in Outpoints |->
        IF sp[o].st = "mempool" THEN [sp[o] EXCEPT !.st = "confirmed"] ELSE sp[o]]

(***************************************************************************)
(* bitcoin_rpc_service.py                                                  *)
(***************************************************************************)
\* get_transaction_info(txid) and the value of the funded output, in BTC;
\* None when the node does not know the transaction.
TxKnown(outpoint) == utxo[outpoint].st # "none"
InputAmount(outpoint) == utxo[outpoint].amount \div SatPerUnit

\* Faulty variant of broadcast_transaction: the node's error is swallowed.
BroadcastSwallowsError(verdict) == [ok |-> TRUE, error |-> ""]

\* Faulty variant of broadcast_transaction: the ValueError does not carry
\* the node's message.
BroadcastDropsNodeMessage(verdict) ==
    IF verdict = "ok" THEN [ok |-> TRUE, error |-> ""]
    ELSE [ok |-> FALSE, error |-> "Broadcast failed"]

\* broadcast_transaction(raw_tx): the txid, or ValueError carrying the
\* node's message.
broadcast_transaction(verdict) ==
    IF verdict = "ok" THEN [ok |-> TRUE, error |-> ""]
    ELSE [ok |-> FALSE, error |-> "Broadcast failed: " \o verdict]

\* generate_blocks(num_blocks): regtest only.
generate_blocks(net) ==
    IF net # "regtest"
    THEN [ok |-> FALSE, error |-> "Block generation only available in regtest mode"]
    ELSE [ok |-> TRUE, error |-> ""]

(***************************************************************************)
(* Outcome of a service call.  (In the handlers below a value computed     *)
(* once and used several times is bound by \E over a one-element set.)     *)
(***************************************************************************)
NoLender == [none |-> TRUE]
\* broadcasts counts the calls of broadcast_transaction the service call made.
NoResult ==
    [op |-> "", ok |-> FALSE, error |-> "", verdict |-> "", broadcasts |-> 0, lender |-> NoLender]

\* The call raised before it reached the node.
Raised(op, prefix, message) ==
    [op |-> op, ok |-> FALSE, error |-> prefix \o message, verdict |-> "", broadcasts |-> 0,
     lender |-> NoLender]

\* Faulty variant of Sent: the handler reports success whatever the
\* broadcast raised.
SentReportsSuccess(op, prefix, verdict) ==
    [op |-> op, ok |-> TRUE, error |-> "", verdict |-> verdict, broadcasts |-> 1,
     lender |-> NoLender]

\* The call sent its transaction to the node, which answered verdict.
Sent(op, prefix, verdict) ==
    LET b == broadcast_transaction(verdict)
    IN  [op |-> op, ok |-> b.ok,
         error |-> IF b.ok THEN "" ELSE prefix \o b.error,
         verdict |-> verdict, broadcasts |-> 1, lender |-> NoLender]

(***************************************************************************)
(* Preimage strings as the API receives them: a text (whose UTF-8 bytes    *)
(* are the secret), "0x" followed by the hex of the secret, or the bare    *)
(* hex of the secret.                                                      *)
(***************************************************************************)
Text(b) == [form |-> "text", of |-> b]
Hex0x(b) == [form |-> "0xhex", of |-> b]
HexBare(b) == [form |-> "hex", of |-> b]

\* str.encode('utf-8'): the bytes of the characters of the string.
EncodeUtf8(p) ==
    CASE p.form = "text" -> p.of
      [] p.form = "hex" -> "hexdigits:" \o p.of
      [] p.form = "0xhex" -> "0x-hexdigits:" \o p.of

\* complete_lender_witness: preimage -> the bytes placed in the witness.
LenderPreimageBytes(preimage) ==
    IF preimage.form # "0xhex" THEN EncodeUtf8(preimage) ELSE preimage.of

\* collateral_release: lender_preimage -> the bytes placed in the witness.
ReleasePreimageBytes(lender_preimage) == EncodeUtf8(lender_preimage)

(***************************************************************************)
(* vaultero_service.py: ExportBorrowerSignature.                           *)
(***************************************************************************)
CollateralRequest(borrower_timelock, collateral_amount) ==
    [loan_id |-> "loan-1",
     escrow_txid |-> "escrow",
     escrow_vout |-> 0,
     borrower_pubkey |-> BorrowerKey,
     lender_pubkey |-> LenderKey,
     preimage_hash_borrower |-> PreimageHashBorrower,
     preimage_hash_lender |-> PreimageHashLender,
     borrower_timelock |-> borrower_timelock,
     lender_timelock |-> loan.lender_timelock,
     collateral_amount |-> collateral_amount,
     origination_fee |-> OrigFee]

\* Faulty variant of create_collateral_transaction_data: the origination
\* fee is taken out of the collateral output.
CollateralTransactionDataFeeDeducted(request) ==
    LET borrower_pub == request.borrower_pubkey
        lender_pub == request.lender_pubkey
        escrow_address == get_nums_p2tr_addr_0(borrower_pub, lender_pub,
                              request.preimage_hash_borrower, request.borrower_timelock)
        collateral_address == get_nums_p2tr_addr_1(borrower_pub, lender_pub,
                              request.preimage_hash_lender, request.lender_timelock)
        scripts == get_leaf_scripts_output_0(borrower_pub, lender_pub,
                              request.preimage_hash_borrower, request.borrower_timelock)
        leaf_index == 1
        txout1 == TxOutput(to_satoshis(request.origination_fee), StandardAddress(lender_pub))
        txout2 == TxOutput(to_satoshis(request.collateral_amount - request.origination_fee),
                           collateral_address)
    IN  [transaction |-> Transaction(request.escrow_txid, DefaultSequence, << txout1, txout2 >>),
         escrow_address |-> escrow_address,
         collateral_address |-> collateral_address,
         scripts |-> scripts,
         leaf_index |-> leaf_index,
         tapleaf_script |-> scripts[leaf_index + 1],
         input_amount |-> InputAmount(request.escrow_txid),
         collateral_amount_float |-> request.collateral_amount,
         orig_fee_float |-> request.origination_fee]

\* Faulty variant of create_collateral_transaction_data: the CSV leaf
\* (leaf_index 0) is selected.
CollateralTransactionDataCsvLeaf(request) ==
    LET borrower_pub == request.borrower_pubkey
        lender_pub == request.lender_pubkey
        escrow_address == get_nums_p2tr_addr_0(borrower_pub, lender_pub,
                              request.preimage_hash_borrower, request.borrower_timelock)
        collateral_address == get_nums_p2tr_addr_1(borrower_pub, lender_pub,
                              request.preimage_hash_lender, request.lender_timelock)
        scripts == get_leaf_scripts_output_0(borrower_pub, lender_pub,
                              request.preimage_hash_borrower, request.borrower_timelock)
        leaf_index == 0
        txout1 == TxOutput(to_satoshis(request.origination_fee), StandardAddress(lender_pub))
        txout2 == TxOutput(to_satoshis(request.collateral_amount), collateral_address)
    IN  [transaction |-> Transaction(request.escrow_txid, DefaultSequence, << txout1, txout2 >>),
         escrow_address |-> escrow_address,
         collateral_address |-> collateral_address,
         scripts |-> scripts,
         leaf_index |-> leaf_index,
         tapleaf_script |-> scripts[leaf_index + 1],
         input_amount |-> InputAmount(request.escrow_txid),
         collateral_amount_float |-> request.collateral_amount,
         orig_fee_float |-> request.origination_fee]

\* _create_collateral_transaction_data, once the escrow transaction is known.
create_collateral_transaction_data(request) ==
    LET borrower_pub == request.borrower_pubkey
        lender_pub == request.lender_pubkey
        escrow_address == get_nums_p2tr_addr_0(borrower_pub, lender_pub,
                              request.preimage_hash_borrower, request.borrower_timelock)
        collateral_address == get_nums_p2tr_addr_1(borrower_pub, lender_pub,
                              request.preimage_hash_lender, request.lender_timelock)
        scripts == get_leaf_scripts_output_0(borrower_pub, lender_pub,
                              request.preimage_hash_borrower, request.borrower_timelock)
        leaf_index == 1
        txout1 == TxOutput(to_satoshis(request.origination_fee), StandardAddress(lender_pub))
        txout2 == TxOutput(to_satoshis(request.collateral_amount), collateral_address)
    IN  [transaction |-> Transaction(request.escrow_txid, DefaultSequence, << txout1, txout2 >>),
         escrow_address |-> escrow_address,
         collateral_address |-> collateral_address,
         scripts |-> scripts,
         leaf_index |-> leaf_index,
         tapleaf_script |-> scripts[leaf_index + 1],
         input_amount |-> InputAmount(request.escrow_txid),
         collateral_amount_float |-> request.collateral_amount,
         orig_fee_float |-> request.origination_fee]

\* Transaction.serialize() / Transaction.from_raw(): the raw hex carries the
\* transaction and whatever witness stacks it has.
serialize(tx, witnesses) == [hex |-> TRUE, tx |-> tx, witnesses |-> witnesses]
from_raw(raw) == [tx |-> raw.tx, witnesses |-> raw.witnesses]

\* Faulty variant of SignatureData: the transaction is serialized with a
\* witness that already holds the borrower's preimage.
SignatureDataWithPreimage(request, tx_data, sig_borrower) ==
    [sig_borrower |-> sig_borrower,
     txid |-> request.escrow_txid,
     vout |-> request.escrow_vout,
     tx_hex |-> serialize(tx_data.transaction,
                          << << sig_borrower, BytesItem(PreimageBorrower) >> >>),
     input_amount |-> tx_data.input_amount,
     leaf_index |-> tx_data.leaf_index,
     escrow_address_script |-> tx_data.escrow_address,
     tapleaf_script_hex |-> tx_data.tapleaf_script,
     escrow_is_odd |-> IsOdd(tx_data.escrow_address),
     loan_id |-> request.loan_id,
     borrower_pubkey |-> request.borrower_pubkey,
     lender_pubkey |-> request.lender_pubkey,
     preimage_hash_borrower |-> request.preimage_hash_borrower,
     borrower_timelock |-> request.borrower_timelock,
     collateral_amount |-> tx_data.collateral_amount_float,
     origination_fee |-> tx_data.orig_fee_float]

\* The signature_data dictionary written to borrower_signature_<loan_id>.json.
SignatureData(request, tx_data, sig_borrower) ==
    [sig_borrower |-> sig_borrower,
     txid |-> request.escrow_txid,
     vout |-> request.escrow_vout,
     tx_hex |-> serialize(tx_data.transaction, <<>>),
     input_amount |-> tx_data.input_amount,
     leaf_index |-> tx_data.leaf_index,
     escrow_address_script |-> tx_data.escrow_address,
     tapleaf_script_hex |-> tx_data.tapleaf_script,
     escrow_is_odd |-> IsOdd(tx_data.escrow_address),
     loan_id |-> request.loan_id,
     borrower_pubkey |-> request.borrower_pubkey,
     lender_pubkey |-> request.lender_pubkey,
     preimage_hash_borrower |-> request.preimage_hash_borrower,
     borrower_timelock |-> request.borrower_timelock,
     collateral_amount |-> tx_data.collateral_amount_float,
     origination_fee |-> tx_data.orig_fee_float]

NoBundle == [none |-> TRUE]

ExportPrefix == "Failed to generate borrower signature: "

generate_borrower_signature(request, borrower_private_key) ==
    IF ~TxKnown(request.escrow_txid)
    THEN /\ result' = Raised("generate_borrower_signature", ExportPrefix,
                             "Escrow transaction not found")
         /\ UNCHANGED << bundle, exported >>
    ELSE \E tx_data \in {create_collateral_transaction_data(request)} :
         LET sig_borrower == sign_taproot_input(borrower_private_key, tx_data.transaction,
                                 tx_data.escrow_address, to_satoshis(tx_data.input_amount),
                                 tx_data.tapleaf_script)
         IN  /\ bundle' = SignatureData(request, tx_data, sig_borrower)
             /\ exported' = (exported \/ borrower_private_key = BorrowerKey)
             /\ result' = [op |-> "generate_borrower_signature", ok |-> TRUE, error |-> "",
                           verdict |-> "", broadcasts |-> 0, lender |-> NoLender]

\* The calls made: the one the loan calls for, and that call with the wrong
\* key or with the shortest timelock.
ExportCalls ==
    { << CollateralRequest(loan.borrower_timelock, CollateralAmount), BorrowerKey >>,
      << CollateralRequest(loan.borrower_timelock, CollateralAmount), LenderKey >>,
      << CollateralRequest(1, CollateralAmount), BorrowerKey >> }

ExportBorrowerSignature ==
    \E call \in ExportCalls :
        /\ generate_borrower_signature(call[1], call[2])
        /\ UNCHANGED << loan, utxo, spend, built, query, service >>

(***************************************************************************)
(* vaultero_service.py: CompleteLenderWitness.                             *)
(***************************************************************************)
\* Faulty variant of LenderScriptPubKey: the address string of the file.
LenderTrustsBundleAddress(signature_data) == signature_data.escrow_address_script

\* The script-pubkey the lender signs for: the escrow address recreated
\* from the keys, hash and timelock of the file.
LenderScriptPubKey(signature_data) ==
    get_nums_p2tr_addr_0(signature_data.borrower_pubkey, signature_data.lender_pubkey,
                         signature_data.preimage_hash_borrower,
                         signature_data.borrower_timelock)

\* Faulty variant of LenderWitness: the two signatures are placed in the
\* witness in the opposite order.
LenderWitnessSignaturesSwapped(signature_data, lender_private_key, preimage) ==
    LET borrower_pub == signature_data.borrower_pubkey
        lender_pub == signature_data.lender_pubkey
        tx == from_raw(signature_data.tx_hex).tx
        escrow_address == LenderScriptPubKey(signature_data)
        scripts == get_leaf_scripts_output_0(borrower_pub, lender_pub,
                       signature_data.preimage_hash_borrower,
                       signature_data.borrower_timelock)
        leaf_index == signature_data.leaf_index
        tapleaf_script == scripts[leaf_index + 1]
        sig_lender == sign_taproot_input(lender_private_key, tx, escrow_address,
                          to_satoshis(signature_data.input_amount), tapleaf_script)
        tree == << scripts[1], scripts[2] >>
        ctrl_block == ControlBlock(NumsKey, tree, leaf_index, signature_data.escrow_is_odd)
        preimage_hex == LenderPreimageBytes(preimage)
        witness == << sig_lender,
                      signature_data.sig_borrower,
                      BytesItem(preimage_hex),
                      ScriptItem(signature_data.tapleaf_script_hex),
                      CtrlItem(ctrl_block) >>
        cleared == << >>
    IN  [tx |-> tx, sig_lender |-> sig_lender, ctrl_block |-> ctrl_block,
         witness |-> witness, witnesses |-> Append(cleared, witness)]

\* Variant of LenderWitness: the witness list read from tx_hex is kept.
LenderWitnessKeepsWitnesses(signature_data, lender_private_key, preimage) ==
    LET borrower_pub == signature_data.borrower_pubkey
        lender_pub == signature_data.lender_pubkey
        tx == from_raw(signature_data.tx_hex).tx
        escrow_address == LenderScriptPubKey(signature_data)
        scripts == get_leaf_scripts_output_0(borrower_pub, lender_pub,
                       signature_data.preimage_hash_borrower,
                       signature_data.borrower_timelock)
        leaf_index == signature_data.leaf_index
        tapleaf_script == scripts[leaf_index + 1]
        sig_lender == sign_taproot_input(lender_private_key, tx, escrow_address,
                          to_satoshis(signature_data.input_amount), tapleaf_script)
        tree == << scripts[1], scripts[2] >>
        ctrl_block == ControlBlock(NumsKey, tree, leaf_index, signature_data.escrow_is_odd)
        preimage_hex == LenderPreimageBytes(preimage)
        witness == << signature_data.sig_borrower,
                      sig_lender,
                      BytesItem(preimage_hex),
                      ScriptItem(signature_data.tapleaf_script_hex),
                      CtrlItem(ctrl_block) >>
        existing == from_raw(signature_data.tx_hex).witnesses
    IN  [tx |-> tx, sig_lender |-> sig_lender, ctrl_block |-> ctrl_block,
         witness |-> witness, witnesses |-> Append(existing, witness)]

\* What complete_lender_witness computes between reading the file and the
\* broadcast.
LenderWitness(signature_data, lender_private_key, preimage) ==
    LET borrower_pub == signature_data.borrower_pubkey
        lender_pub == signature_data.lender_pubkey
        tx == from_raw(signature_data.tx_hex).tx
        escrow_address == LenderScriptPubKey(signature_data)
        scripts == get_leaf_scripts_output_0(borrower_pub, lender_pub,
                       signature_data.preimage_hash_borrower,
                       signature_data.borrower_timelock)
        leaf_index == signature_data.leaf_index
        tapleaf_script == scripts[leaf_index + 1]
        sig_lender == sign_taproot_input(lender_private_key, tx, escrow_address,
                          to_satoshis(signature_data.input_amount), tapleaf_script)
        tree == << scripts[1], scripts[2] >>
        ctrl_block == ControlBlock(NumsKey, tree, leaf_index, signature_data.escrow_is_odd)
        preimage_hex == LenderPreimageBytes(preimage)
        witness == << signature_data.sig_borrower,
                      sig_lender,
                      BytesItem(preimage_hex),
                      ScriptItem(signature_data.tapleaf_script_hex),
                      CtrlItem(ctrl_block) >>
        cleared == << >>
    IN  [tx |-> tx, sig_lender |-> sig_lender, ctrl_block |-> ctrl_block,
         witness |-> witness, witnesses |-> Append(cleared, witness)]

LenderPrefix == "Failed to complete lender witness: "

\* signature_data is what json.load(signature_file_path) returns, NoBundle
\* when there is no such file; bitcoin_network is settings.bitcoin_network.
complete_lender_witness(signature_data, lender_private_key, preimage, mine_block, bitcoin_network) ==
    IF signature_data = NoBundle
    THEN /\ result' = Raised("complete_lender_witness", LenderPrefix,
                             "No such file or directory")
         /\ UNCHANGED << utxo, spend >>
    ELSE \E w \in {LenderWitness(signature_data, lender_private_key, preimage)} :
         \E sent \in {[Sent("complete_lender_witness", LenderPrefix,
                            NodeVerdict(w.tx, w.witness))
                          EXCEPT !.lender = [read |-> signature_data,
                                             sig_lender |-> w.sig_lender,
                                             ctrl_block |-> w.ctrl_block,
                                             witnesses |-> w.witnesses]]} :
         LET mined == generate_blocks(bitcoin_network)
             sent_utxo == NewOutputs(w.tx, sent.verdict)
             sent_spend == NewSpend(w.tx, w.witness, sent.verdict)
         IN  IF ~sent.ok \/ ~mine_block
             THEN /\ result' = sent
                  /\ utxo' = sent_utxo
                  /\ spend' = sent_spend
             ELSE IF ~mined.ok
             THEN /\ result' = [sent EXCEPT !.ok = FALSE,
                                            !.error = LenderPrefix \o mined.error]
                  /\ utxo' = sent_utxo
                  /\ spend' = sent_spend
             ELSE /\ result' = sent
                  /\ utxo' = MinedUtxo(sent_utxo)
                  /\ spend' = MinedSpend(sent_spend)

\* The file is transmitted out-of-band: what the lender's call reads at
\* signature_file_path is the file the borrower's call wrote, or that file
\* with its address string, its parity bit, its leaf script or its leaf
\* index replaced, or with a transaction hex that already carries a witness
\* stack.
Substitutions(signature_data) ==
    { [signature_data EXCEPT !.escrow_address_script = CollateralAddress],
      [signature_data EXCEPT !.escrow_is_odd = ~signature_data.escrow_is_odd],
      [signature_data EXCEPT !.tapleaf_script_hex = CollateralScripts[2]],
      [signature_data EXCEPT !.leaf_index = 0],
      [signature_data EXCEPT !.tx_hex = serialize(from_raw(signature_data.tx_hex).tx,
                                                  << << signature_data.sig_borrower >> >>)] }

\* The calls made: << file read, key, preimage, mine_block, network >>.  The
\* call the loan calls for (the preimage as text or as 0x-hex, with and
\* without mining, on either network), and that call with a replaced file,
\* the wrong key or the wrong preimage.
LenderCalls ==
    IF bundle = NoBundle
    THEN { << NoBundle, LenderKey, Text(PreimageBorrower), FALSE, "regtest" >> }
    ELSE { << bundle, LenderKey, Text(PreimageBorrower), FALSE, "regtest" >>,
           << bundle, LenderKey, Text(PreimageBorrower), TRUE, "regtest" >>,
           << bundle, LenderKey, Text(PreimageBorrower), TRUE, "testnet" >>,
           << bundle, LenderKey, Hex0x(PreimageBorrower), FALSE, "regtest" >>,
           << bundle, BorrowerKey, Text(PreimageBorrower), FALSE, "regtest" >>,
           << bundle, LenderKey, Text(WrongPreimage), FALSE, "regtest" >> }
         \cup { << f, LenderKey, Text(PreimageBorrower), FALSE, "regtest" >> :
                    f \in Substitutions(bundle) }

CompleteLenderWitness ==
    \E call \in LenderCalls :
        /\ complete_lender_witness(call[1], call[2], call[3], call[4], call[5])
        /\ UNCHANGED << loan, bundle, exported, built, query, service >>

(***************************************************************************)
(* vaultero_service.py: BorrowerExit.                                      *)
(***************************************************************************)
ExitAddress == [kind |-> "p2pkh", key |-> "exit", root |-> <<>>]

BorrowerExitEscrowRequest(borrower_timelock, exit_address, exit_fee, borrower_private_key) ==
    [loan_id |-> "loan-1",
     escrow_txid |-> "escrow",
     escrow_vout |-> 0,
     borrower_pubkey |-> BorrowerKey,
     lender_pubkey |-> LenderKey,
     preimage_hash_borrower |-> PreimageHashBorrower,
     borrower_timelock |-> borrower_timelock,
     exit_address |-> exit_address,
     exit_fee |-> exit_fee,
     borrower_private_key |-> borrower_private_key]

\* Faulty variant of ExitSequence: the input's nSequence encodes one block
\* less than the timelock.
ExitSequenceOneLess(request) == request.borrower_timelock - 1

\* Faulty variant of ExitSequence: the input keeps its default nSequence.
ExitSequenceUnset(request) == DefaultSequence

\* Sequence(TYPE_RELATIVE_TIMELOCK, request.borrower_timelock).for_input_sequence()
ExitSequence(request) == request.borrower_timelock

\* Faulty variant of BorrowerExitTx: the control block is built for index 1
\* while the script signed and placed in the witness is that of index 0.
BorrowerExitTxOtherControlBlock(request, input_amount) ==
    LET borrower_pub == request.borrower_pubkey
        lender_pub == request.lender_pubkey
        escrow_address == get_nums_p2tr_addr_0(borrower_pub, lender_pub,
                              request.preimage_hash_borrower, request.borrower_timelock)
        exit_amount_float == input_amount - request.exit_fee
        tx_output == TxOutput(to_satoshis(exit_amount_float), StandardAddress(borrower_pub))
        scripts == get_leaf_scripts_output_0(borrower_pub, lender_pub,
                              request.preimage_hash_borrower, request.borrower_timelock)
        leaf_index == 0
        tapleaf_script == scripts[leaf_index + 1]
        tree == << scripts[1], scripts[2] >>
        ctrl_block == ControlBlock(NumsKey, tree, 1, IsOdd(escrow_address))
        tx == Transaction(request.escrow_txid, ExitSequence(request), << tx_output >>)
        sig_borrower == sign_taproot_input(request.borrower_private_key, tx, escrow_address,
                            to_satoshis(input_amount), tapleaf_script)
    IN  [tx |-> tx,
         witness |-> << sig_borrower, ScriptItem(tapleaf_script), CtrlItem(ctrl_block) >>]

\* The transaction and witness borrower_exit_escrow builds for a known
\* escrow output of input_amount BTC.
BorrowerExitTx(request, input_amount) ==
    LET borrower_pub == request.borrower_pubkey
        lender_pub == request.lender_pubkey
        escrow_address == get_nums_p2tr_addr_0(borrower_pub, lender_pub,
                              request.preimage_hash_borrower, request.borrower_timelock)
        exit_amount_float == input_amount - request.exit_fee
        tx_output == TxOutput(to_satoshis(exit_amount_float), StandardAddress(borrower_pub))
        scripts == get_leaf_scripts_output_0(borrower_pub, lender_pub,
                              request.preimage_hash_borrower, request.borrower_timelock)
        leaf_index == 0
        tapleaf_script == scripts[leaf_index + 1]
        tree == << scripts[1], scripts[2] >>
        ctrl_block == ControlBlock(NumsKey, tree, leaf_index, IsOdd(escrow_address))
        tx == Transaction(request.escrow_txid, ExitSequence(request), << tx_output >>)
        sig_borrower == sign_taproot_input(request.borrower_private_key, tx, escrow_address,
                            to_satoshis(input_amount), tapleaf_script)
    IN  [tx |-> tx,
         witness |-> << sig_borrower, ScriptItem(tapleaf_script), CtrlItem(ctrl_block) >>]

ExitPrefix == "Failed to execute borrower exit escrow: "

\* Faulty variant of borrower_exit_escrow: the call is refused once a
\* signature file has been written.
BorrowerExitRefusedAfterExport(request) ==
    IF bundle # NoBundle \/ ~TxKnown(request.escrow_txid)
    THEN /\ result' = Raised("borrower_exit_escrow", ExitPrefix, "Escrow transaction not found")
         /\ UNCHANGED << utxo, spend >>
    ELSE IF InputAmount(request.escrow_txid) - request.exit_fee <= 0
    THEN /\ result' = Raised("borrower_exit_escrow", ExitPrefix,
                             "Exit amount must be positive after fee")
         /\ UNCHANGED << utxo, spend >>
    ELSE \E b \in {BorrowerExitTx(request, InputAmount(request.escrow_txid))} :
         \E sent \in {Sent("borrower_exit_escrow", ExitPrefix, NodeVerdict(b.tx, b.witness))} :
             /\ result' = sent
             /\ utxo' = NewOutputs(b.tx, sent.verdict)
             /\ spend' = NewSpend(b.tx, b.witness, sent.verdict)

borrower_exit_escrow(request) ==
    IF ~TxKnown(request.escrow_txid)
    THEN /\ result' = Raised("borrower_exit_escrow", ExitPrefix, "Escrow transaction not found")
         /\ UNCHANGED << utxo, spend >>
    ELSE IF InputAmount(request.escrow_txid) - request.exit_fee <= 0
    THEN /\ result' = Raised("borrower_exit_escrow", ExitPrefix,
                             "Exit amount must be positive after fee")
         /\ UNCHANGED << utxo, spend >>
    ELSE \E b \in {BorrowerExitTx(request, InputAmount(request.escrow_txid))} :
         \E sent \in {Sent("borrower_exit_escrow", ExitPrefix, NodeVerdict(b.tx, b.witness))} :
             /\ result' = sent
             /\ utxo' = NewOutputs(b.tx, sent.verdict)
             /\ spend' = NewSpend(b.tx, b.witness, sent.verdict)

\* main.py, POST /transactions/borrower-exit: the data of the success
\* response for a call that returned txid.
BorrowerExitResponseData(request, txid) ==
    [txid |-> txid, loan_id |-> request.loan_id, exit_address |-> request.exit_address]

\* The calls made: the one the loan calls for, and that call with the wrong
\* key, with the shortest timelock, or with a fee that leaves nothing.
ExitRequests ==
    { BorrowerExitEscrowRequest(loan.borrower_timelock, ExitAddress, TxFee, BorrowerKey),
      BorrowerExitEscrowRequest(loan.borrower_timelock, ExitAddress, TxFee, LenderKey),
      BorrowerExitEscrowRequest(1, ExitAddress, TxFee, BorrowerKey),
      BorrowerExitEscrowRequest(loan.borrower_timelock, ExitAddress, EscrowFunding, BorrowerKey) }

BorrowerExit ==
    \E request \in ExitRequests :
        /\ borrower_exit_escrow(request)
        /\ UNCHANGED << loan, bundle, exported, built, query, service >>

(***************************************************************************)
(* vaultero_service.py: CollateralRelease.                                 *)
(***************************************************************************)
CollateralReleaseRequest(lender_timelock, release_fee, borrower_private_key, lender_preimage) ==
    [loan_id |-> "loan-1",
     collateral_txid |-> "collateral",
     collateral_vout |-> 1,
     borrower_pubkey |-> BorrowerKey,
     lender_pubkey |-> LenderKey,
     preimage_hash_lender |-> PreimageHashLender,
     lender_timelock |-> lender_timelock,
     release_fee |-> release_fee,
     borrower_private_key |-> borrower_private_key,
     lender_preimage |-> lender_preimage]

CollateralReleaseTx(request, input_amount) ==
    LET borrower_pub == request.borrower_pubkey
        lender_pub == request.lender_pubkey
        collateral_address == get_nums_p2tr_addr_1(borrower_pub, lender_pub,
                                  request.preimage_hash_lender, request.lender_timelock)
        release_amount_float == input_amount - request.release_fee
        tx_output == TxOutput(to_satoshis(release_amount_float), StandardAddress(borrower_pub))
        tx == Transaction(request.collateral_txid, DefaultSequence, << tx_output >>)
        scripts == get_leaf_scripts_output_1(borrower_pub, lender_pub,
                                  request.preimage_hash_lender, request.lender_timelock)
        leaf_index == 1
        tapleaf_script == scripts[leaf_index + 1]
        tree == << scripts[1], scripts[2] >>
        ctrl_block == ControlBlock(NumsKey, tree, leaf_index, IsOdd(collateral_address))
        preimage_hex == ReleasePreimageBytes(request.lender_preimage)
        sig_borrower == sign_taproot_input(request.borrower_private_key, tx, collateral_address,
                            to_satoshis(input_amount), tapleaf_script)
    IN  [tx |-> tx,
         witness |-> << sig_borrower, BytesItem(preimage_hex),
                        ScriptItem(tapleaf_script), CtrlItem(ctrl_block) >>]

ReleasePrefix == "Failed to execute collateral release: "

collateral_release(request) ==
    IF ~TxKnown(request.collateral_txid)
    THEN /\ result' = Raised("collateral_release", ReleasePrefix,
                             "Collateral transaction not found")
         /\ UNCHANGED << utxo, spend >>
    ELSE IF InputAmount(request.collateral_txid) - request.release_fee <= 0
    THEN /\ result' = Raised("collateral_release", ReleasePrefix,
                             "Release amount must be positive after fee")
         /\ UNCHANGED << utxo, spend >>
    ELSE \E b \in {CollateralReleaseTx(request, InputAmount(request.collateral_txid))} :
         \E sent \in {Sent("collateral_release", ReleasePrefix, NodeVerdict(b.tx, b.witness))} :
             /\ result' = sent
             /\ utxo' = NewOutputs(b.tx, sent.verdict)
             /\ spend' = NewSpend(b.tx, b.witness, sent.verdict)

\* The calls made: the one the loan calls for, and that call with the wrong
\* key, with the wrong preimage, with the shortest timelock, or with a fee
\* that leaves nothing.
ReleaseRequests ==
    { CollateralReleaseRequest(loan.lender_timelock, TxFee, BorrowerKey, Text(PreimageLender)),
      CollateralReleaseRequest(loan.lender_timelock, TxFee, LenderKey, Text(PreimageLender)),
      CollateralReleaseRequest(loan.lender_timelock, TxFee, BorrowerKey, Text(WrongPreimage)),
      CollateralReleaseRequest(1, TxFee, BorrowerKey, Text(PreimageLender)),
      CollateralReleaseRequest(loan.lender_timelock, EscrowFunding, BorrowerKey,
                               Text(PreimageLender)) }

CollateralRelease ==
    \E request \in ReleaseRequests :
        /\ collateral_release(request)
        /\ UNCHANGED << loan, bundle, exported, built, query, service >>

(***************************************************************************)
(* vaultero_service.py: CollateralCapture.                                 *)
(***************************************************************************)
CollateralCaptureRequest(lender_timelock, capture_fee, lender_private_key) ==
    [loan_id |-> "loan-1",
     collateral_txid |-> "collateral",
     collateral_vout |-> 1,
     borrower_pubkey |-> BorrowerKey,
     lender_pubkey |-> LenderKey,
     preimage_hash_lender |-> PreimageHashLender,
     lender_timelock |-> lender_timelock,
     capture_fee |-> capture_fee,
     lender_private_key |-> lender_private_key]

\* Faulty variant of CaptureSequence: the input keeps its default nSequence.
CaptureSequenceUnset(request) == DefaultSequence

\* Sequence(TYPE_RELATIVE_TIMELOCK, request.lender_timelock).for_input_sequence()
CaptureSequence(request) == request.lender_timelock

CollateralCaptureTx(request, input_amount) ==
    LET borrower_pub == request.borrower_pubkey
        lender_pub == request.lender_pubkey
        collateral_address == get_nums_p2tr_addr_1(borrower_pub, lender_pub,
                                  request.preimage_hash_lender, request.lender_timelock)
        capture_amount_float == input_amount - request.capture_fee
        tx_output == TxOutput(to_satoshis(capture_amount_float), StandardAddress(lender_pub))
        scripts == get_leaf_scripts_output_1(borrower_pub, lender_pub,
                                  request.preimage_hash_lender, request.lender_timelock)
        leaf_index == 0
        tapleaf_script == scripts[leaf_index + 1]
        tree == << scripts[1], scripts[2] >>
        ctrl_block == ControlBlock(NumsKey, tree, leaf_index, IsOdd(collateral_address))
        tx == Transaction(request.collateral_txid, CaptureSequence(request), << tx_output >>)
        sig_lender == sign_taproot_input(request.lender_private_key, tx, collateral_address,
                          to_satoshis(input_amount), tapleaf_script)
    IN  [tx |-> tx,
         witness |-> << sig_lender, ScriptItem(tapleaf_script), CtrlItem(ctrl_block) >>]

CapturePrefix == "Failed to execute collateral capture: "

collateral_capture(request) ==
    IF ~TxKnown(request.collateral_txid)
    THEN /\ result' = Raised("collateral_capture", CapturePrefix,
                             "Collateral transaction not found")
         /\ UNCHANGED << utxo, spend >>
    ELSE IF InputAmount(request.collateral_txid) - request.capture_fee <= 0
    THEN /\ result' = Raised("collateral_capture", CapturePrefix,
                             "Capture amount must be positive after fee")
         /\ UNCHANGED << utxo, spend >>
    ELSE \E b \in {CollateralCaptureTx(request, InputAmount(request.collateral_txid))} :
         \E sent \in {Sent("collateral_capture", CapturePrefix, NodeVerdict(b.tx, b.witness))} :
             /\ result' = sent
             /\ utxo' = NewOutputs(b.tx, sent.verdict)
             /\ spend' = NewSpend(b.tx, b.witness, sent.verdict)

\* The calls made: the one the loan calls for, and that call with the wrong
\* key, with the shortest timelock, or with a fee that leaves nothing.
CaptureRequests ==
    { CollateralCaptureRequest(loan.lender_timelock, TxFee, LenderKey),
      CollateralCaptureRequest(loan.lender_timelock, TxFee, BorrowerKey),
      CollateralCaptureRequest(1, TxFee, LenderKey),
      CollateralCaptureRequest(loan.lender_timelock, EscrowFunding, LenderKey) }

CollateralCapture ==
    \E request \in CaptureRequests :
        /\ collateral_capture(request)
        /\ UNCHANGED << loan, bundle, exported, built, query, service >>

(***************************************************************************)
(* Environment: funding and block production.                              *)
(***************************************************************************)
\* bitcoin_rpc.fund_address(escrow address, amount): sendtoaddress; the
\* funding transaction waits in the mempool.
FundEscrow ==
    /\ utxo["escrow"].st = "none"
    /\ utxo' = [utxo EXCEPT !["escrow"] =
                    [st |-> "mempool", addr |-> EscrowAddress,
                     amount |-> to_satoshis(EscrowFunding), conf |-> 0]]
    /\ UNCHANGED << loan, spend, bundle, exported, result, built, query, service >>

\* A block is found (by generatetoaddress on regtest, by miners elsewhere).
MineBlock ==
    /\ utxo' = MinedUtxo(utxo)
    /\ spend' = MinedSpend(spend)
    /\ UNCHANGED << loan, bundle, exported, result, built, query, service >>

(***************************************************************************)
(* Specification.                                                          *)
(***************************************************************************)
Init ==
    /\ loan \in [borrower_timelock : Timelocks, lender_timelock : Timelocks,
                 status : {DefaultStatus}]
    /\ utxo = [o \in Outpoints |-> NoUtxo]
    /\ spend = [o \in Outpoints |-> NoSpend]
    /\ bundle = NoBundle
    /\ exported = FALSE
    /\ result = NoResult
    /\ built = NoBuilt
    /\ query = NoQuery
    /\ service = NewService

Next ==
    \/ FundEscrow
    \/ MineBlock
    \/ ExportBorrowerSignature
    \/ CompleteLenderWitness
    \/ BorrowerExit
    \/ CollateralRelease
    \/ CollateralCapture

Spec == Init /\ [][Next]_vars

(***************************************************************************)
(* main.py: POST /transactions/borrower-signature.                         *)
(***************************************************************************)
\* models.py: the fields of CreateCollateralRequest declared Field(...),
\* without a default.
CreateCollateralRequestRequired ==
    {"loan_id", "escrow_txid", "borrower_pubkey", "lender_pubkey",
     "preimage_hash_borrower", "preimage_hash_lender",
     "borrower_timelock", "lender_timelock", "collateral_amount"}

\* A valid BorrowerSignatureRequest: the fields of the collateral request
\* and the borrower's key.
BorrowerSignatureRequest(borrower_timelock, collateral_amount, borrower_private_key) ==
    [request |-> CollateralRequest(borrower_timelock, collateral_amount),
     borrower_private_key |-> borrower_private_key]

\* Variant of EndpointKeywords: every field of the request is handed on.
EndpointKeywordsComplete ==
    {"loan_id", "escrow_txid", "escrow_vout", "borrower_pubkey", "lender_pubkey",
     "preimage_hash_borrower", "preimage_hash_lender", "borrower_timelock",
     "lender_timelock", "collateral_amount", "origination_fee"}

\* The keyword arguments with which the endpoint constructs the
\* CreateCollateralRequest it hands to the service.
EndpointKeywords ==
    {"loan_id", "escrow_txid", "escrow_vout", "borrower_pubkey", "lender_pubkey",
     "preimage_hash_lender", "lender_timelock", "collateral_amount", "origination_fee"}

EndpointName == "POST /transactions/borrower-signature"

\* The endpoint: pydantic raises ValidationError when a required field is
\* not among the keywords; the handler's except turns every exception into
\* HTTP 500 with the detail "Failed to generate borrower signature: ...".
post_borrower_signature(request) ==
    LET keywords == [f \in EndpointKeywords |-> request.request[f]]
        missing == CreateCollateralRequestRequired \ DOMAIN keywords
    IN  IF missing # {}
        THEN /\ result' = Raised(EndpointName, ExportPrefix,
                                 "validation errors for CreateCollateralRequest: Field required")
             /\ UNCHANGED << bundle, exported >>
        ELSE \E served \in {[f \in DOMAIN request.request |->
                                 IF f \in DOMAIN keywords THEN keywords[f] ELSE OrigFee]} :
                 generate_borrower_signature(served, request.borrower_private_key)

BorrowerSignatureRequests ==
    { BorrowerSignatureRequest(loan.borrower_timelock, CollateralAmount, BorrowerKey),
      BorrowerSignatureRequest(1, CollateralAmount, BorrowerKey) }

PostBorrowerSignature ==
    \E request \in BorrowerSignatureRequests :
        /\ post_borrower_signature(request)
        /\ UNCHANGED << loan, utxo, spend, built, query, service >>

\* The endpoint next to the service call it wraps and to what funds and
\* confirms the escrow.
ApiNext ==
    \/ FundEscrow
    \/ MineBlock
    \/ ExportBorrowerSignature
    \/ PostBorrowerSignature

ApiSpec == Init /\ [][ApiNext]_vars

\* The calls the loan calls for when a party abandons the cooperative path.
HonestExitRequest ==
    BorrowerExitEscrowRequest(loan.borrower_timelock, ExitAddress, TxFee, BorrowerKey)
HonestCaptureRequest ==
    CollateralCaptureRequest(loan.lender_timelock, TxFee, LenderKey)

BorrowerKeepsExiting ==
    /\ borrower_exit_escrow(HonestExitRequest)
    /\ UNCHANGED << loan, bundle, exported, built, query, service >>

LenderKeepsCapturing ==
    /\ collateral_capture(HonestCaptureRequest)
    /\ UNCHANGED << loan, bundle, exported, built, query, service >>

\* Blocks keep being found.
FairBlocks == Spec /\ WF_vars(MineBlock)

\* Blocks keep being found and the borrower keeps attempting BorrowerExit.
FairExit == FairBlocks /\ WF_vars(BorrowerKeepsExiting)

\* Blocks keep being found and the lender keeps attempting CollateralCapture.
FairCapture == FairBlocks /\ WF_vars(LenderKeepsCapturing)

(***************************************************************************)
(* The transaction builders: vaultero/utils.py and                         *)
(* VaulteroService.create_collateral_transaction.  They read the node and  *)
(* change nothing; built records what the call had assembled when it ended *)
(* (tx, NoTx when no Transaction object was constructed) and whether it    *)
(* returned (ok) or raised (error).                                        *)
(***************************************************************************)
\* proxy.gettxout(txid, vout)['value'] in BTC; gettxout answers None for an
\* output that does not exist or is spent.
TxOutKnown(outpoint) ==
    outpoint \in Outpoints /\ utxo[outpoint].st # "none" /\ spend[outpoint].st = "none"

BuildRaised(op, message, tx) ==
    [op |-> op, ok |-> FALSE, error |-> message, tx |-> tx, witnesses |-> <<>>,
     scripts |-> <<>>, addr |-> NoAddr, returned |-> "None", blocks |-> 0]

\* Faulty variant of BuildReturned: the transaction comes back with a
\* witness that holds the borrower's signature.
BuildReturnedSigned(op, tx) ==
    [op |-> op, ok |-> TRUE, error |-> "", tx |-> tx,
     witnesses |-> << << SigItem(BorrowerKey, Sighash(tx, NoAddr, 0, <<>>)) >> >>,
     scripts |-> <<>>, addr |-> NoAddr, returned |-> "None", blocks |-> 0]

\* Transaction([txin], [...], has_segwit=True) is returned as constructed:
\* its witness list is empty.
BuildReturned(op, tx) ==
    [op |-> op, ok |-> TRUE, error |-> "", tx |-> tx, witnesses |-> <<>>,
     scripts |-> <<>>, addr |-> NoAddr, returned |-> "None", blocks |-> 0]

create_collateral_lock_tx(borrower_pub, lender_pub, preimage_hash_lender, lender_timelock, txid, orig_fee, collateral_amount) ==
    IF ~TxOutKnown(txid)
    THEN built' = BuildRaised("create_collateral_lock_tx",
                              "TypeError: 'NoneType' object is not subscriptable", NoTx)
    ELSE LET input_amount == InputAmount(txid)
         IN  IF ~(input_amount > collateral_amount + orig_fee)
             THEN built' = BuildRaised("create_collateral_lock_tx",
                      "Input amount is less than collateral amount + output orig fee", NoTx)
             ELSE LET collateral_output_address ==
                          get_nums_p2tr_addr_1(borrower_pub, lender_pub,
                                               preimage_hash_lender, lender_timelock)
                      txout1 == TxOutput(to_satoshis(orig_fee), StandardAddress(lender_pub))
                      txout2 == TxOutput(to_satoshis(collateral_amount),
                                         collateral_output_address)
                      tx == Transaction(txid, DefaultSequence, << txout1, txout2 >>)
                 IN  built' = BuildReturned("create_collateral_lock_tx", tx)

\* The characters of the texts passed as preimage hash.  A SHA-256
\* hexdigest is 64 lower-case hexadecimal digits.
Repeat(c, n) == [i \in 1 .. n |-> c]

HashLen == 64

Characters(text) ==
    CASE text \in {Sha256Hex(b) : b \in Preimages} -> Repeat("a", HashLen)
      [] text = "" -> << >>
      [] text = "invalid_hash" ->
            << "i", "n", "v", "a", "l", "i", "d", "_", "h", "a", "s", "h" >>
      [] text = "63 hex digits" -> Repeat("a", HashLen - 1)
      [] text = "65 hex digits" -> Repeat("a", HashLen + 1)
      [] text = "64 characters, the last not hex" ->
            [Repeat("a", HashLen) EXCEPT ![HashLen] = "g"]
      [] text = "64 characters, the first a space" ->
            [Repeat("a", HashLen) EXCEPT ![1] = " "]
      [] text = "64 upper-case hex digits" -> Repeat("A", HashLen)

LowerHexDigits ==
    {"0", "1", "2", "3", "4", "5", "6", "7", "8", "9", "a", "b", "c", "d", "e", "f"}

\* Faulty variant of PreimageHashError: only the length is checked.
PreimageHashErrorLengthOnly(preimage_hash) ==
    LET chars == Characters(preimage_hash)
    IN  IF Len(chars) # HashLen
        THEN "Preimage hash must be a 64-character SHA256 hash"
        ELSE ""

\* The two asserts that open get_leaf_scripts_output_0 / _1: the message of
\* the AssertionError, "" when both pass.
PreimageHashError(preimage_hash) ==
    LET chars == Characters(preimage_hash)
    IN  IF Len(chars) # HashLen
        THEN "Preimage hash must be a 64-character SHA256 hash"
        ELSE IF \E i \in DOMAIN chars : chars[i] \notin LowerHexDigits
        THEN "Preimage hash must contain only hexadecimal characters"
        ELSE ""

MaxSequence == 65535

\* Faulty variant of SequenceError: zero is let through.
SequenceErrorZeroAllowed(value) ==
    IF value < 0 \/ value > MaxSequence THEN "Sequence should be between 1 and 65535"
    ELSE ""

\* Sequence(TYPE_RELATIVE_TIMELOCK, value): the message of the ValueError
\* the constructor raises, "" when it constructs.
SequenceError(value) ==
    IF value < 1 \/ value > MaxSequence THEN "Sequence should be between 1 and 65535"
    ELSE ""

\* A builder of leaf scripts or of an address ended: it raised message, or
\* returned scripts / addr.
Derived(op, message, scripts, addr) ==
    IF message # ""
    THEN [op |-> op, ok |-> FALSE, error |-> message, tx |-> NoTx, witnesses |-> <<>>,
          scripts |-> << >>, addr |-> NoAddr, returned |-> "None", blocks |-> 0]
    ELSE [op |-> op, ok |-> TRUE, error |-> "", tx |-> NoTx, witnesses |-> <<>>,
          scripts |-> scripts, addr |-> addr, returned |-> "None", blocks |-> 0]

\* The error a leaf-script builder ends with: the asserts come first, then
\* the Sequence constructor, then the scripts are built.
LeafScriptsError(preimage_hash, timelock) ==
    IF PreimageHashError(preimage_hash) # "" THEN PreimageHashError(preimage_hash)
    ELSE SequenceError(timelock)

\* Calls of the four builders with arguments of any shape.
call_get_leaf_scripts_output_0(borrower_pub, lender_pub, preimage_hash_borrower, borrower_timelock) ==
    \E error \in {LeafScriptsError(preimage_hash_borrower, borrower_timelock)} :
        built' = Derived("get_leaf_scripts_output_0", error,
                         IF error # "" THEN << >>
                         ELSE get_leaf_scripts_output_0(borrower_pub, lender_pub,
                                  preimage_hash_borrower, borrower_timelock),
                         NoAddr)

call_get_leaf_scripts_output_1(borrower_pub, lender_pub, preimage_hash_lender, lender_timelock) ==
    \E error \in {LeafScriptsError(preimage_hash_lender, lender_timelock)} :
        built' = Derived("get_leaf_scripts_output_1", error,
                         IF error # "" THEN << >>
                         ELSE get_leaf_scripts_output_1(borrower_pub, lender_pub,
                                  preimage_hash_lender, lender_timelock),
                         NoAddr)

call_get_nums_p2tr_addr_0(borrower_pub, lender_pub, preimage_hash_borrower, borrower_timelock) ==
    \E error \in {LeafScriptsError(preimage_hash_borrower, borrower_timelock)} :
        built' = Derived("get_nums_p2tr_addr_0", error, << >>,
                         IF error # "" THEN NoAddr
                         ELSE get_nums_p2tr_addr_0(borrower_pub, lender_pub,
                                  preimage_hash_borrower, borrower_timelock))

call_get_nums_p2tr_addr_1(borrower_pub, lender_pub, preimage_hash_lender, lender_timelock) ==
    \E error \in {LeafScriptsError(preimage_hash_lender, lender_timelock)} :
        built' = Derived("get_nums_p2tr_addr_1", error, << >>,
                         IF error # "" THEN NoAddr
                         ELSE get_nums_p2tr_addr_1(borrower_pub, lender_pub,
                                  preimage_hash_lender, lender_timelock))

\* The arguments the builders are called with: the loan's hashes and
\* malformed texts; the loan's timelocks, zero and a negative number.
HashArguments ==
    {PreimageHashBorrower, PreimageHashLender, "", "invalid_hash", "63 hex digits",
     "65 hex digits", "64 characters, the last not hex",
     "64 characters, the first a space", "64 upper-case hex digits"}

TimelockArguments == {0 - 1, 0} \cup Timelocks

GetLeafScriptsOutput0 ==
    \E preimage_hash \in HashArguments, timelock \in TimelockArguments :
        /\ call_get_leaf_scripts_output_0(BorrowerKey, LenderKey, preimage_hash, timelock)
        /\ UNCHANGED << loan, utxo, spend, bundle, exported, result, query, service >>

GetLeafScriptsOutput1 ==
    \E preimage_hash \in HashArguments, timelock \in TimelockArguments :
        /\ call_get_leaf_scripts_output_1(BorrowerKey, LenderKey, preimage_hash, timelock)
        /\ UNCHANGED << loan, utxo, spend, bundle, exported, result, query, service >>

GetNumsP2trAddr0 ==
    \E preimage_hash \in HashArguments, timelock \in TimelockArguments :
        /\ call_get_nums_p2tr_addr_0(BorrowerKey, LenderKey, preimage_hash, timelock)
        /\ UNCHANGED << loan, utxo, spend, bundle, exported, result, query, service >>

GetNumsP2trAddr1 ==
    \E preimage_hash \in HashArguments, timelock \in TimelockArguments :
        /\ call_get_nums_p2tr_addr_1(BorrowerKey, LenderKey, preimage_hash, timelock)
        /\ UNCHANGED << loan, utxo, spend, bundle, exported, result, query, service >>

\* Faulty variant of create_collateral_release_tx: release_to_borrower is
\* ignored and the borrower is always paid.
CollateralReleaseTxAlwaysToBorrower(borrower_pub, lender_pub, txid, tx_fee, release_to_borrower) ==
    IF ~TxOutKnown(txid)
    THEN built' = BuildRaised("create_collateral_release_tx",
                              "TypeError: 'NoneType' object is not subscriptable", NoTx)
    ELSE LET input_amount == InputAmount(txid)
         IN  IF ~(input_amount > tx_fee)
             THEN built' = BuildRaised("create_collateral_release_tx",
                                       "Input amount is less than tx fee", NoTx)
             ELSE built' = BuildReturned("create_collateral_release_tx",
                               Transaction(txid, DefaultSequence,
                                   << TxOutput(to_satoshis(input_amount) - to_satoshis(tx_fee),
                                               StandardAddress(borrower_pub)) >>))

create_collateral_release_tx(borrower_pub, lender_pub, txid, tx_fee, release_to_borrower) ==
    IF ~TxOutKnown(txid)
    THEN built' = BuildRaised("create_collateral_release_tx",
                              "TypeError: 'NoneType' object is not subscriptable", NoTx)
    ELSE LET input_amount == InputAmount(txid)
         IN  IF ~(input_amount > tx_fee)
             THEN built' = BuildRaised("create_collateral_release_tx",
                                       "Input amount is less than tx fee", NoTx)
             ELSE LET txout ==
                          IF release_to_borrower
                          THEN TxOutput(to_satoshis(input_amount) - to_satoshis(tx_fee),
                                        StandardAddress(borrower_pub))
                          ELSE TxOutput(to_satoshis(input_amount) - to_satoshis(tx_fee),
                                        StandardAddress(lender_pub))
                      tx == Transaction(txid, DefaultSequence, << txout >>)
                 IN  built' = BuildReturned("create_collateral_release_tx", tx)

CreatePrefix == "Failed to create collateral transaction: "

create_collateral_transaction(request) ==
    IF ~TxKnown(request.escrow_txid)
    THEN built' = BuildRaised("create_collateral_transaction",
                              CreatePrefix \o "Escrow transaction not found", NoTx)
    ELSE \E tx_data \in {create_collateral_transaction_data(request)} :
         IF tx_data.input_amount <= tx_data.collateral_amount_float + tx_data.orig_fee_float
         THEN built' = BuildRaised("create_collateral_transaction",
                           CreatePrefix \o "Input amount is less than collateral amount + origination fee",
                           tx_data.transaction)
         ELSE built' = BuildReturned("create_collateral_transaction", tx_data.transaction)

\* The amounts asked for: the loan's collateral, or that and 0.001 BTC.
CollateralAmounts == {CollateralAmount, CollateralAmount + TxFee}

CreateCollateralLockTx ==
    \E collateral_amount \in CollateralAmounts :
        /\ create_collateral_lock_tx(BorrowerKey, LenderKey, PreimageHashLender,
                                     loan.lender_timelock, "escrow", OrigFee, collateral_amount)
        /\ UNCHANGED << loan, utxo, spend, bundle, exported, result, query, service >>

CreateCollateralTransaction ==
    \E collateral_amount \in CollateralAmounts :
        /\ create_collateral_transaction(
               CollateralRequest(loan.borrower_timelock, collateral_amount))
        /\ UNCHANGED << loan, utxo, spend, bundle, exported, result, query, service >>

\* The fees asked for: the default, the whole collateral, or more.
ReleaseFees == {TxFee, CollateralAmount, EscrowFunding}

CreateCollateralReleaseTx ==
    \E tx_fee \in ReleaseFees, release_to_borrower \in BOOLEAN :
        /\ create_collateral_release_tx(BorrowerKey, LenderKey, "collateral", tx_fee,
                                        release_to_borrower)
        /\ UNCHANGED << loan, utxo, spend, bundle, exported, result, query, service >>

\* The outputs the builders are called for: none yet; an escrow output
\* funded with the scenario's amount or 0.001 BTC less or more; or the
\* collateral output, locked by the escrow-to-collateral transaction in a
\* block.
FundedAmounts == {EscrowFunding - TxFee, EscrowFunding, EscrowFunding + TxFee}

FundedEscrow(amount) ==
    [st |-> "confirmed", addr |-> EscrowAddress, amount |-> to_satoshis(amount), conf |-> 1]

LockedCollateral ==
    [st |-> "confirmed", addr |-> CollateralAddress,
     amount |-> to_satoshis(CollateralAmount), conf |-> 1]

LockSpend ==
    LET tx == Transaction("escrow", DefaultSequence,
                  << TxOutput(to_satoshis(OrigFee), StandardAddress(LenderKey)),
                     TxOutput(to_satoshis(CollateralAmount), CollateralAddress) >>)
        leaf == EscrowScripts[2]
        amount == to_satoshis(EscrowFunding)
    IN  [st |-> "confirmed", tx |-> tx,
         witness |-> << sign_taproot_input(BorrowerKey, tx, EscrowAddress, amount, leaf),
                        sign_taproot_input(LenderKey, tx, EscrowAddress, amount, leaf),
                        BytesItem(PreimageBorrower),
                        ScriptItem(leaf),
                        CtrlItem(ControlBlock(NumsKey, EscrowScripts, 1,
                                              IsOdd(EscrowAddress))) >>]

BuildInit ==
    /\ loan \in [borrower_timelock : Timelocks, lender_timelock : Timelocks,
                 status : {DefaultStatus}]
    /\ \/ /\ utxo = [o \in Outpoints |-> NoUtxo]
          /\ spend = [o \in Outpoints |-> NoSpend]
       \/ /\ \E amount \in FundedAmounts :
                utxo = [[o \in Outpoints |-> NoUtxo] EXCEPT !["escrow"] = FundedEscrow(amount)]
          /\ spend = [o \in Outpoints |-> NoSpend]
       \/ /\ utxo = [escrow |-> [FundedEscrow(EscrowFunding) EXCEPT !.conf = 2],
                      collateral |-> LockedCollateral]
          /\ spend = [escrow |-> LockSpend, collateral |-> NoSpend]
    /\ bundle = NoBundle
    /\ exported = FALSE
    /\ result = NoResult
    /\ built = NoBuilt
    /\ query = NoQuery
    /\ service = NewService

BuildNext ==
    \/ CreateCollateralLockTx
    \/ CreateCollateralTransaction
    \/ CreateCollateralReleaseTx
    \/ GetLeafScriptsOutput0
    \/ GetLeafScriptsOutput1
    \/ GetNumsP2trAddr0
    \/ GetNumsP2trAddr1

BuildSpec == BuildInit /\ [][BuildNext]_vars

(***************************************************************************)
(* The Loan object (loan.py).  loan holds its timelock_0 and timelock_1    *)
(* (borrower_timelock, lender_timelock) and its status; the outcome of the *)
(* last method call is recorded in built (ok = FALSE: ValueError raised,   *)
(* error its message).                                                     *)
(***************************************************************************)
\* f"{self.status}" of a LoanStatus member.
StatusText(status) == "LoanStatus." \o status

\* Variant of accept: the status is not looked at.
AcceptFromAnyStatus(self) ==
    /\ loan' = [self EXCEPT !.status = "ACTIVE"]
    /\ built' = BuildReturned("Loan.accept", NoTx)

accept(self) ==
    IF self.status # "PENDING"
    THEN /\ built' = BuildRaised("Loan.accept",
                                 "Cannot accept loan with status: " \o StatusText(self.status),
                                 NoTx)
         /\ loan' = self
    ELSE /\ loan' = [self EXCEPT !.status = "ACTIVE"]
         /\ built' = BuildReturned("Loan.accept", NoTx)

reject(self) ==
    IF self.status # "PENDING"
    THEN /\ built' = BuildRaised("Loan.reject",
                                 "Cannot reject loan with status: " \o StatusText(self.status),
                                 NoTx)
         /\ loan' = self
    ELSE /\ loan' = [self EXCEPT !.status = "LOAN_INIT_FAILED"]
         /\ built' = BuildReturned("Loan.reject", NoTx)

\* Variant of complete: a loan that is not ACTIVE is marked DEFAULTED.
CompleteDefaultsInactive(self) ==
    IF self.status # "ACTIVE"
    THEN /\ loan' = [self EXCEPT !.status = "DEFAULTED"]
         /\ built' = BuildReturned("Loan.complete", NoTx)
    ELSE /\ loan' = [self EXCEPT !.status = "REPAID"]
         /\ built' = BuildReturned("Loan.complete", NoTx)

complete(self) ==
    IF self.status # "ACTIVE"
    THEN /\ built' = BuildRaised("Loan.complete",
                                 "Cannot complete loan with status: " \o StatusText(self.status),
                                 NoTx)
         /\ loan' = self
    ELSE /\ loan' = [self EXCEPT !.status = "REPAID"]
         /\ built' = BuildReturned("Loan.complete", NoTx)

LoanAccept ==
    /\ accept(loan)
    /\ UNCHANGED << utxo, spend, bundle, exported, result, query, service >>

LoanReject ==
    /\ reject(loan)
    /\ UNCHANGED << utxo, spend, bundle, exported, result, query, service >>

LoanComplete ==
    /\ complete(loan)
    /\ UNCHANGED << utxo, spend, bundle, exported, result, query, service >>

\* Loan(..., status=...) may be constructed with any status.
LoanInit ==
    /\ loan \in [borrower_timelock : Timelocks, lender_timelock : Timelocks,
                 status : LoanStatus]
    /\ utxo = [o \in Outpoints |-> NoUtxo]
    /\ spend = [o \in Outpoints |-> NoSpend]
    /\ bundle = NoBundle
    /\ exported = FALSE
    /\ result = NoResult
    /\ built = NoBuilt
    /\ query = NoQuery
    /\ service = NewService

\* str(bool).
BoolText(b) == IF b THEN "True" ELSE "False"

\* timelock_0 is the loan's borrower_timelock.
can_be_spent_by_borrower(self, current_block_height) ==
    self.status = "ACTIVE" /\ current_block_height >= self.borrower_timelock

\* The block heights asked about: below, at and above the timelocks.
BlockHeights == 0 .. MaxConf

LoanCanBeSpentByBorrower ==
    /\ \E current_block_height \in BlockHeights :
          built' = [BuildReturned("Loan.can_be_spent_by_borrower", NoTx) EXCEPT
                       !.returned = BoolText(can_be_spent_by_borrower(loan,
                                                 current_block_height))]
    /\ UNCHANGED << loan, utxo, spend, bundle, exported, result, query, service >>

LoanNext == LoanAccept \/ LoanReject \/ LoanComplete \/ LoanCanBeSpentByBorrower

LoanSpec == LoanInit /\ [][LoanNext]_vars

(***************************************************************************)
(* generate_borrower_signature asked for each of the collateral amounts:   *)
(* with the origination fee, the first leaves a fee of the escrow funding, *)
(* the second is the whole funding.                                        *)
(***************************************************************************)
ExportCollateralAmounts ==
    \E collateral_amount \in CollateralAmounts :
        /\ generate_borrower_signature(
               CollateralRequest(loan.borrower_timelock, collateral_amount), BorrowerKey)
        /\ UNCHANGED << loan, utxo, spend, built, query, service >>

ExportNext == FundEscrow \/ MineBlock \/ ExportCollateralAmounts \/ CompleteLenderWitness

ExportSpec == Init /\ [][ExportNext]_vars

(***************************************************************************)
(* generate_preimage, and the calls that are handed the preimage string it *)
(* returned.  preimage_bytes is what secrets.token_bytes(32) drew; the     *)
(* loan's two secrets are such draws.                                      *)
(***************************************************************************)
\* Returns << preimage_bytes.hex(), sha256(preimage_bytes).hex() >>.
generate_preimage(preimage_bytes) ==
    << HexBare(preimage_bytes), Sha256Hex(preimage_bytes) >>

LenderUsesGeneratedPreimage ==
    /\ complete_lender_witness(bundle, LenderKey, generate_preimage(PreimageBorrower)[1],
                               FALSE, "regtest")
    /\ UNCHANGED << loan, bundle, exported, built, query, service >>

GeneratedReleaseRequest ==
    CollateralReleaseRequest(loan.lender_timelock, TxFee, BorrowerKey,
                             generate_preimage(PreimageLender)[1])

ReleaseUsesGeneratedPreimage ==
    /\ collateral_release(GeneratedReleaseRequest)
    /\ UNCHANGED << loan, bundle, exported, built, query, service >>

PreimageNext ==
    \/ FundEscrow
    \/ MineBlock
    \/ ExportBorrowerSignature
    \/ CompleteLenderWitness
    \/ LenderUsesGeneratedPreimage
    \/ ReleaseUsesGeneratedPreimage

PreimageSpec == Init /\ [][PreimageNext]_vars

(***************************************************************************)
(* python_config.py: Timelock.to_bitcoin_blocks and Config.get_timelock.   *)
(* A configuration holds a block count (in EVM blocks) for each timelock   *)
(* name and the btc:evm ratio, here as the pair of integers the ratio      *)
(* string "btc:evm" is split into.                                         *)
(***************************************************************************)
TimelockNames ==
    {"loanRequest", "btcEscrow", "repaymentAccept", "btcCollateral", "loanDuration"}

\* The ratio when the configuration names none: "1:20".
DefaultRatio == << 1, 20 >>

\* int(self.blocks * btc_ratio / evm_ratio): the quotient, truncated.
to_bitcoin_blocks(blocks, ratio) == (blocks * ratio[1]) \div ratio[2]

get_timelock(config, timelock_name, for_bitcoin) ==
    IF timelock_name \notin TimelockNames
    THEN built' = BuildRaised("get_timelock", "Unknown timelock: " \o timelock_name, NoTx)
    ELSE built' = [BuildReturned("get_timelock", NoTx) EXCEPT
                      !.blocks = IF for_bitcoin
                                 THEN to_bitcoin_blocks(config.timelocks[timelock_name],
                                                        config.btc_to_evm_ratio)
                                 ELSE config.timelocks[timelock_name]]

\* The configurations: every timelock a positive number of EVM blocks, the
\* ratio the default, 1:10, 1:1 or 2:1.
Configs ==
    { [timelocks |-> [name \in TimelockNames |-> blocks], btc_to_evm_ratio |-> ratio] :
          blocks \in 1 .. MaxEvmBlocks,
          ratio \in {DefaultRatio, << 1, 10 >>, << 1, 1 >>, << 2, 1 >>} }

GetTimelock ==
    /\ \E config \in Configs, timelock_name \in {"btcEscrow", "btcCollateral", "escrow"},
           for_bitcoin \in BOOLEAN :
          get_timelock(config, timelock_name, for_bitcoin)
    /\ UNCHANGED << loan, utxo, spend, bundle, exported, result, query, service >>

ConfigNext == GetTimelock

ConfigSpec == Init /\ [][ConfigNext]_vars

(***************************************************************************)
(* vaultero_service.py: get_transaction_status, and the two reads of the   *)
(* node it awaits one after the other.  A transaction is named by the      *)
(* outpoint it creates; UnknownTxid names a transaction no node has.       *)
(***************************************************************************)
UnknownTxid == "unknown"
StatusTxids == Outpoints \cup {UnknownTxid}

\* get_transaction_info(txid): the node's record of the transaction, None
\* when the node answers -5 (not found).
get_transaction_info(txid) ==
    IF txid \notin Outpoints \/ utxo[txid].st = "none" THEN None
    ELSE [known |-> TRUE,
          confirmations |-> IF utxo[txid].st = "confirmed" THEN utxo[txid].conf ELSE 0]

\* get_confirmations(txid): -1 when not found.
get_confirmations(txid) ==
    LET tx_info == get_transaction_info(txid)
    IN  IF tx_info = None THEN 0 - 1 ELSE tx_info.confirmations

\* Faulty variant of StatusResponse: zero confirmations count as confirmed.
StatusResponseConfirmedAtZero(txid, tx_info, confirmations) ==
    IF tx_info = None
    THEN [txid |-> txid, confirmed |-> FALSE, confirmations |-> 0 - 1,
          status |-> "not_found", error |-> ""]
    ELSE [txid |-> txid, confirmed |-> confirmations >= 0, confirmations |-> confirmations,
          status |-> IF confirmations >= 0 THEN "confirmed" ELSE "pending", error |-> ""]

\* What get_transaction_status returns from the two values it has read.
StatusResponse(txid, tx_info, confirmations) ==
    IF tx_info = None
    THEN [txid |-> txid, confirmed |-> FALSE, confirmations |-> 0 - 1,
          status |-> "not_found", error |-> ""]
    ELSE [txid |-> txid, confirmed |-> confirmations > 0, confirmations |-> confirmations,
          status |-> IF confirmations > 0 THEN "confirmed" ELSE "pending", error |-> ""]

\* get_transaction_status(txid), up to the first await: tx_info is read.
GetTransactionInfo ==
    /\ query.pc = "idle"
    /\ \E txid \in StatusTxids :
          query' = [NoQuery EXCEPT !.pc = "get_confirmations",
                                   !.op = "get_transaction_status",
                                   !.txid = txid,
                                   !.tx_info = get_transaction_info(txid)]
    /\ UNCHANGED << loan, utxo, spend, bundle, exported, result, built, service >>

\* get_transaction_status(txid), the rest: confirmations is read and the
\* answer returned.
GetConfirmations ==
    /\ query.pc = "get_confirmations"
    /\ query' = [query EXCEPT
                    !.pc = "idle",
                    !.response = StatusResponse(query.txid, query.tx_info,
                                                get_confirmations(query.txid))]
    /\ UNCHANGED << loan, utxo, spend, bundle, exported, result, built, service >>

\* The status calls next to what funds, locks and confirms the two
\* transactions they ask about.
StatusNext ==
    \/ FundEscrow
    \/ MineBlock
    \/ ExportBorrowerSignature
    \/ CompleteLenderWitness
    \/ GetTransactionInfo
    \/ GetConfirmations

StatusSpec == Init /\ [][StatusNext]_vars

(***************************************************************************)
(* is_utxo_spent, get_utxo_details and monitor_utxo_status                 *)
(* (bitcoin_rpc_service.py).  Each gettxout is one request to the node; it *)
(* raises JSONRPCException when the node cannot be queried (rpc_up FALSE). *)
(* monitor_utxo_status makes two requests, between which other parties'    *)
(* transactions may reach the node.                                        *)
(***************************************************************************)
\* self.rpc.gettxout(txid, vout): the unspent output (mempool spends
\* included), None when there is none.
gettxout(outpoint) ==
    IF TxOutKnown(outpoint)
    THEN [found |-> TRUE, value |-> utxo[outpoint].amount,
          confirmations |-> utxo[outpoint].conf, address |-> utxo[outpoint].addr]
    ELSE NoTxOut

is_utxo_spent(outpoint, rpc_up) ==
    IF rpc_up THEN gettxout(outpoint) = NoTxOut ELSE TRUE

get_utxo_details(outpoint, rpc_up) ==
    IF rpc_up THEN gettxout(outpoint) ELSE NoTxOut

\* The status dictionary monitor_utxo_status builds from its two reads.
UtxoStatus(outpoint, is_spent, utxo_details) ==
    [txid |-> outpoint, is_spent |-> is_spent,
     confirmations |-> IF utxo_details.found THEN utxo_details.confirmations ELSE 0,
     value |-> IF utxo_details.found THEN utxo_details.value ELSE 0,
     address |-> IF utxo_details.found THEN utxo_details.address ELSE NoAddr,
     error |-> ""]

\* A call of is_utxo_spent by itself.
IsUtxoSpent ==
    /\ query.pc = "idle"
    /\ \E outpoint \in Outpoints, rpc_up \in BOOLEAN :
          query' = [NoQuery EXCEPT !.op = "is_utxo_spent",
                                   !.txid = outpoint,
                                   !.is_spent = is_utxo_spent(outpoint, rpc_up),
                                   !.failed = ~rpc_up]
    /\ UNCHANGED << loan, utxo, spend, bundle, exported, result, built, service >>

\* monitor_utxo_status, its first read: self.is_utxo_spent(txid, vout).
MonitorIsUtxoSpent ==
    /\ query.pc = "idle"
    /\ \E outpoint \in Outpoints, rpc_up \in BOOLEAN :
          query' = [NoQuery EXCEPT !.pc = "get_utxo_details",
                                   !.op = "monitor_utxo_status",
                                   !.txid = outpoint,
                                   !.is_spent = is_utxo_spent(outpoint, rpc_up),
                                   !.failed = ~rpc_up]
    /\ UNCHANGED << loan, utxo, spend, bundle, exported, result, built, service >>

\* monitor_utxo_status, the rest: self.get_utxo_details(txid, vout) and the
\* status returned.
MonitorGetUtxoDetails ==
    /\ query.pc = "get_utxo_details"
    /\ \E rpc_up \in BOOLEAN :
          query' = [query EXCEPT
                       !.pc = "idle",
                       !.failed = query.failed \/ ~rpc_up,
                       !.utxo_status = UtxoStatus(query.txid, query.is_spent,
                                                  get_utxo_details(query.txid, rpc_up))]
    /\ UNCHANGED << loan, utxo, spend, bundle, exported, result, built, service >>

\* The monitoring calls next to what funds, spends and confirms the
\* outputs they ask about.
MonitorNext ==
    \/ FundEscrow
    \/ MineBlock
    \/ BorrowerExit
    \/ IsUtxoSpent
    \/ MonitorIsUtxoSpent
    \/ MonitorGetUtxoDetails

MonitorSpec == Init /\ [][MonitorNext]_vars

(***************************************************************************)
(* The rpc property of BitcoinRPCService and _initialize_wallet            *)
(* (bitcoin_rpc_service.py).  What the node answers is the environment's   *)
(* choice: probe is the outcome of getblockchaininfo, wallet the outcome   *)
(* of the wallet calls of _initialize_wallet.                              *)
(***************************************************************************)
\* getblockchaininfo answers or the connection fails.
ProbeOutcomes == {"ok", "Connection refused"}

\* listwallets / createwallet / loadwallet succeed ("ok"), or the first
\* JSONRPCException has code -4, -35 or -18 (and the loadwallet or
\* createwallet that follows succeeds or raises), or another code, or the
\* exception is not a JSONRPCException.
WalletOutcomes ==
    {"ok", "-4", "-35", "-35, loadwallet failed", "-18", "-18, createwallet failed",
     "JSONRPCException", "Exception"}

\* The outcomes after which _initialize_wallet returns: the flag is set and
\* the connection recreated for the wallet endpoint.
WalletInitialized == {"ok", "-4", "-35", "-18"}

initialize_wallet(self, wallet) ==
    IF wallet \in WalletInitialized
    THEN [self EXCEPT !.wallet_initialized = TRUE, !.rpc_connection = "wallet",
                      !.access = "returned", !.error = ""]
    ELSE [self EXCEPT !.access = "ConnectionError",
                      !.error = "Cannot connect to Bitcoin Core: " \o wallet]

\* One access of self.rpc: the object afterwards, access telling whether
\* the connection was returned or ConnectionError raised.
rpc(self, probe, wallet) ==
    IF self.rpc_connection # "None"
    THEN [self EXCEPT !.access = "returned", !.error = ""]
    ELSE LET created == [self EXCEPT !.rpc_connection = "node"]
         IN  IF probe # "ok"
             THEN [created EXCEPT !.access = "ConnectionError",
                                  !.error = "Cannot connect to Bitcoin Core: " \o probe]
             ELSE IF created.wallet_initialized
             THEN [created EXCEPT !.probed = TRUE, !.access = "returned", !.error = ""]
             ELSE initialize_wallet([created EXCEPT !.probed = TRUE], wallet)

RpcAccess ==
    /\ \E probe \in ProbeOutcomes, wallet \in WalletOutcomes :
          service' = rpc(service, probe, wallet)
    /\ UNCHANGED << loan, utxo, spend, bundle, exported, result, built, query >>

\* Accesses of the property while the node receives the escrow funding and
\* blocks.
RpcNext == FundEscrow \/ MineBlock \/ RpcAccess

RpcSpec == Init /\ [][RpcNext]_vars

(***************************************************************************)
(* Observations used by the properties.                                    *)
(***************************************************************************)
ScriptStrings(script) == {script[i].s : i \in DOMAIN script}

AddressStrings(addr) ==
    {addr.key} \cup UNION {ScriptStrings(addr.root[i]) : i \in DOMAIN addr.root}

TxStrings(tx) == UNION {AddressStrings(tx.outs[i].to) : i \in DOMAIN tx.outs}

\* Every byte string a witness / stack item holds, the signed message of a
\* signature included.
ItemStrings(item) ==
    {item.s} \cup ScriptStrings(item.sc)
        \cup (IF item.t = "sig"
              THEN TxStrings(item.m.tx) \cup AddressStrings(item.m.spk)
                       \cup ScriptStrings(item.m.leaf)
              ELSE {})
        \cup (IF item.t = "ctrl" THEN {item.cb.key} \cup ScriptStrings(item.cb.path) ELSE {})

WitnessStrings(witness) == UNION {ItemStrings(witness[i]) : i \in DOMAIN witness}

\* Every byte string the signature file holds.
BundleStrings(b) ==
    {b.txid, b.loan_id, b.borrower_pubkey, b.lender_pubkey, b.preimage_hash_borrower}
        \cup ItemStrings(b.sig_borrower)
        \cup TxStrings(b.tx_hex.tx)
        \cup UNION {WitnessStrings(b.tx_hex.witnesses[i]) : i \in DOMAIN b.tx_hex.witnesses}
        \cup AddressStrings(b.escrow_address_script)
        \cup ScriptStrings(b.tapleaf_script_hex)

BundleFields ==
    {"sig_borrower", "txid", "vout", "tx_hex", "input_amount", "leaf_index",
     "escrow_address_script", "tapleaf_script_hex", "escrow_is_odd", "loan_id",
     "borrower_pubkey", "lender_pubkey", "preimage_hash_borrower", "borrower_timelock",
     "collateral_amount", "origination_fee"}

\* The escrow output is spent (in the mempool or in a block) through its
\* second leaf, E1.
EscrowSpentByE1 ==
    /\ spend["escrow"].st # "none"
    /\ WitnessScript(spend["escrow"].witness) = EscrowScripts[2]

\* The spending witness of outpoint o holds key's signature of that spend
\* through leaf.
SpendSignedBy(o, key, leaf) ==
    \E i \in DOMAIN spend[o].witness :
        spend[o].witness[i] =
            sign_taproot_input(key, spend[o].tx, utxo[o].addr, utxo[o].amount, leaf)

\* The spending witness of outpoint o holds bytes whose SHA-256 is hash.
SpendReveals(o, hash) ==
    \E i \in DOMAIN spend[o].witness :
        /\ spend[o].witness[i].t = "bytes"
        /\ Sha256Hex(spend[o].witness[i].s) = hash

(***************************************************************************)
(* C1.  In every reachable state the signature file written by             *)
(* generate_borrower_signature holds no preimage of either party: none of  *)
(* its fields is a preimage field and no byte string in it (the raw        *)
(* transaction and its witnesses, the scripts, the signature's message     *)
(* included) is a preimage; it carries only the hash.                      *)
(***************************************************************************)
C1_BundleHoldsNoPreimage ==
    bundle # NoBundle =>
        /\ DOMAIN bundle = BundleFields
        /\ BundleStrings(bundle) \cap Preimages = {}
        /\ bundle.preimage_hash_borrower \in Hashes

C1_Witness ==
    /\ bundle # NoBundle
    /\ exported
    /\ bundle.sig_borrower.s = BorrowerKey
    /\ result.op = "generate_borrower_signature"

(***************************************************************************)
(* C2.  Whenever the escrow output is spent through leaf E1, the borrower  *)
(* has exported her signature in a file and that signature is in the       *)
(* witness, the lender's signature of the same spend is in the witness,    *)
(* and the witness holds bytes whose SHA-256 is preimage_hash_borrower.    *)
(***************************************************************************)
C2_E1NeedsBothSignaturesAndPreimage ==
    EscrowSpentByE1 =>
        /\ exported
        /\ SpendSignedBy("escrow", BorrowerKey, EscrowScripts[2])
        /\ SpendSignedBy("escrow", LenderKey, EscrowScripts[2])
        /\ SpendReveals("escrow", PreimageHashBorrower)

C2_Witness ==
    /\ EscrowSpentByE1
    /\ spend["escrow"].st = "confirmed"
    /\ utxo["collateral"].st = "confirmed"

\* The node's answer to a transaction whose input is already spent in a
\* block (the specification's AlreadySpentError).
AlreadySpent == "bad-txns-inputs-missingorspent"

\* The escrow-to-collateral spend is in a block.
LenderSpendConfirmed == EscrowSpentByE1 /\ spend["escrow"].st = "confirmed"

\* The collateral output is spent, in a block, through leaf C0 (capture) /
\* leaf C1 (release).
CaptureConfirmed ==
    /\ spend["collateral"].st = "confirmed"
    /\ WitnessScript(spend["collateral"].witness) = utxo["collateral"].addr.root[1]
ReleaseConfirmed ==
    /\ spend["collateral"].st = "confirmed"
    /\ WitnessScript(spend["collateral"].witness) = utxo["collateral"].addr.root[2]

(***************************************************************************)
(* C3.  For a funded escrow output at most one spend confirms: a spend     *)
(* that is in a block is never replaced by another.  Once the lender's     *)
(* escrow-to-collateral spend is in a block, every BorrowerExit call       *)
(* fails, leaves utxo and spend unchanged, and, when it got as far as the  *)
(* broadcast, fails there with the node's already-spent answer.            *)
(***************************************************************************)
C3_EscrowRace ==
    [][ /\ (spend["escrow"].st = "confirmed" => spend'["escrow"] = spend["escrow"])
        /\ \A request \in ExitRequests :
              (/\ LenderSpendConfirmed
               /\ borrower_exit_escrow(request)
               /\ UNCHANGED << loan, bundle, exported, built, query, service >>)
              => /\ ~result'.ok
                 /\ chain' = chain
                 /\ (request.exit_fee < InputAmount("escrow")
                        => result'.verdict = AlreadySpent)
      ]_vars

C3_Witness ==
    /\ LenderSpendConfirmed
    /\ result.op = "borrower_exit_escrow"
    /\ result.verdict = AlreadySpent

(***************************************************************************)
(* C4.  For a funded collateral output exactly one of CollateralRelease    *)
(* and CollateralCapture confirms: a spend of it that the node accepted    *)
(* gets into a block, and a spend that is in a block is never replaced.    *)
(* Once one of the two is in a block, every call of the other fails,       *)
(* changes nothing on the chain and, when it got as far as the broadcast,  *)
(* is answered as a spend of an already spent output.                      *)
(***************************************************************************)
C4_CollateralRace ==
    /\ [][ /\ (spend["collateral"].st = "confirmed"
                  => spend'["collateral"] = spend["collateral"])
           /\ \A request \in CaptureRequests :
                 (/\ ReleaseConfirmed
                  /\ collateral_capture(request)
                  /\ UNCHANGED << loan, bundle, exported, built, query, service >>)
                 => /\ ~result'.ok
                    /\ chain' = chain
                    /\ (request.capture_fee < InputAmount("collateral")
                           => result'.verdict = AlreadySpent)
           /\ \A request \in ReleaseRequests :
                 (/\ CaptureConfirmed
                  /\ collateral_release(request)
                  /\ UNCHANGED << loan, bundle, exported, built, query, service >>)
                 => /\ ~result'.ok
                    /\ chain' = chain
                    /\ (request.release_fee < InputAmount("collateral")
                           => result'.verdict = AlreadySpent)
         ]_vars
    /\ (spend["collateral"].st = "mempool") ~> (spend["collateral"].st = "confirmed")

C4_Witness ==
    /\ CaptureConfirmed
    /\ result.op = "collateral_release"
    /\ result.verdict = AlreadySpent

\* Blocks elapsed since the funding of outpoint o, the block that confirmed
\* it being the first: its confirmations (0 while it waits in the mempool).
Age(o) == IF utxo[o].st = "confirmed" THEN utxo[o].conf ELSE 0

Unspent(o) == utxo[o].st # "none" /\ spend[o].st = "none"

\* The spend of outpoint o, as the node holds it after accepting tx through
\* the leaf at leaf_index (0-based) of the output's tree.
AcceptedThrough(sp, tx_outs, sequence, leaf) ==
    /\ sp.st = "mempool"
    /\ sp.tx.outs = tx_outs
    /\ sp.tx.sequence = sequence
    /\ WitnessScript(sp.witness) = leaf

(***************************************************************************)
(* C5.  A BorrowerExit call is accepted only when the escrow funding has   *)
(* at least borrower_timelock confirmations.  The call the loan calls for, *)
(* made while the escrow is funded and unspent, is rejected by the node as *)
(* non-BIP68-final at every smaller age (N-1 in particular) and leaves the *)
(* chain unchanged, and is accepted (spending through leaf E0 to the       *)
(* borrower) at age N and later.                                           *)
(***************************************************************************)
C5_ExitTimelock ==
    [][ \A request \in ExitRequests :
          (borrower_exit_escrow(request) /\ UNCHANGED << loan, bundle, exported, built, query, service >>)
          => /\ result'.ok => Age("escrow") >= loan.borrower_timelock
             /\ (request = HonestExitRequest /\ Unspent("escrow"))
                => /\ Age("escrow") < loan.borrower_timelock
                      => /\ ~result'.ok
                         /\ result'.verdict = "non-BIP68-final"
                         /\ chain' = chain
                   /\ Age("escrow") >= loan.borrower_timelock
                      => /\ result'.ok
                         /\ AcceptedThrough(spend'["escrow"],
                                << TxOutput(utxo["escrow"].amount - to_satoshis(TxFee),
                                            StandardAddress(BorrowerKey)) >>,
                                loan.borrower_timelock, EscrowScripts[1])
      ]_vars

\* BorrowerExit accepted at exactly N = MaxTimelock confirmations.
C5_Witness ==
    /\ result.op = "borrower_exit_escrow"
    /\ result.ok
    /\ spend["escrow"].st = "mempool"
    /\ loan.borrower_timelock = MaxTimelock
    /\ Age("escrow") = loan.borrower_timelock

(***************************************************************************)
(* C6.  A CollateralCapture call is never accepted before the collateral   *)
(* output has lender_timelock confirmations; an accepted one pays the      *)
(* output's amount less the fee to the lender; and the call the loan calls *)
(* for, made at lender_timelock confirmations or later while the           *)
(* collateral is unspent, is accepted through leaf C0.                     *)
(***************************************************************************)
C6_CaptureTimelock ==
    [][ \A request \in CaptureRequests :
          (collateral_capture(request) /\ UNCHANGED << loan, bundle, exported, built, query, service >>)
          => /\ result'.ok
                => /\ Age("collateral") >= loan.lender_timelock
                   /\ AcceptedThrough(spend'["collateral"],
                          << TxOutput(utxo["collateral"].amount
                                          - to_satoshis(request.capture_fee),
                                      StandardAddress(LenderKey)) >>,
                          loan.lender_timelock, CollateralScripts[1])
             /\ (/\ request = HonestCaptureRequest
                 /\ Unspent("collateral")
                 /\ Age("collateral") >= loan.lender_timelock)
                => result'.ok
      ]_vars

\* CollateralCapture accepted at exactly N = MaxTimelock confirmations.
C6_Witness ==
    /\ result.op = "collateral_capture"
    /\ result.ok
    /\ spend["collateral"].st = "mempool"
    /\ loan.lender_timelock = MaxTimelock
    /\ Age("collateral") = loan.lender_timelock

\* The witness collateral_release sends for request holds the borrower's
\* signature of the spend through leaf C1 and a preimage of
\* preimage_hash_lender.
ReleaseWitnessGood(request) ==
    /\ TxKnown(request.collateral_txid)
    /\ InputAmount(request.collateral_txid) - request.release_fee > 0
    /\ \E b \in {CollateralReleaseTx(request, InputAmount(request.collateral_txid))} :
          /\ \E i \in DOMAIN b.witness :
                b.witness[i] = sign_taproot_input(BorrowerKey, b.tx, utxo["collateral"].addr,
                                                  utxo["collateral"].amount,
                                                  CollateralScripts[2])
          /\ \E i \in DOMAIN b.witness :
                /\ b.witness[i].t = "bytes"
                /\ Sha256Hex(b.witness[i].s) = PreimageHashLender

(***************************************************************************)
(* C7.  A CollateralRelease call is accepted if and only if the collateral *)
(* output is unspent and the witness holds a valid borrower signature and  *)
(* a preimage of preimage_hash_lender, whatever the number of              *)
(* confirmations of the collateral output; the accepted transaction keeps  *)
(* the default nSequence (no relative timelock).                           *)
(***************************************************************************)
C7_ReleaseAnyHeight ==
    [][ \A request \in ReleaseRequests :
          (collateral_release(request) /\ UNCHANGED << loan, bundle, exported, built, query, service >>)
          => /\ result'.ok <=> (Unspent("collateral") /\ ReleaseWitnessGood(request))
             /\ result'.ok
                => AcceptedThrough(spend'["collateral"],
                       << TxOutput(utxo["collateral"].amount
                                       - to_satoshis(request.release_fee),
                                   StandardAddress(BorrowerKey)) >>,
                       DefaultSequence, CollateralScripts[2])
      ]_vars

\* CollateralRelease accepted before lender_timelock has matured.
C7_Witness ==
    /\ result.op = "collateral_release"
    /\ result.ok
    /\ spend["collateral"].st = "mempool"
    /\ Age("collateral") < loan.lender_timelock

EscrowFunded == utxo["escrow"].st # "none"
CollateralFunded == utxo["collateral"].st # "none"

\* The escrow is spent, in a block, by a transaction paying the borrower.
EscrowReturned ==
    /\ spend["escrow"].st = "confirmed"
    /\ Len(spend["escrow"].tx.outs) = 1
    /\ spend["escrow"].tx.outs[1].to = StandardAddress(BorrowerKey)

\* The collateral is spent (mempool or block) through leaf C1.
ReleaseBroadcast ==
    /\ spend["collateral"].st # "none"
    /\ WitnessScript(spend["collateral"].witness) = CollateralScripts[2]

\* The collateral is spent, in a block, by a transaction paying the lender.
CollateralCaptured ==
    /\ spend["collateral"].st = "confirmed"
    /\ Len(spend["collateral"].tx.outs) = 1
    /\ spend["collateral"].tx.outs[1].to = StandardAddress(LenderKey)

(***************************************************************************)
(* C8.  If the lender's escrow-to-collateral spend is never accepted,      *)
(* then, blocks being found and the borrower attempting BorrowerExit again *)
(* and again, a funded escrow is eventually spent, in a block, by a        *)
(* transaction that pays the borrower.                                     *)
(***************************************************************************)
C8_EscrowEventuallyReturned ==
    ([]~EscrowSpentByE1) => (EscrowFunded ~> EscrowReturned)

C8_Witness ==
    /\ EscrowReturned
    /\ bundle = NoBundle

(***************************************************************************)
(* C9.  If no CollateralRelease is ever accepted, then, blocks being found *)
(* and the lender attempting CollateralCapture again and again, a funded   *)
(* collateral output is eventually spent, in a block, by a transaction     *)
(* that pays the lender.                                                   *)
(***************************************************************************)
C9_CollateralEventuallyCaptured ==
    ([]~ReleaseBroadcast) => (CollateralFunded ~> CollateralCaptured)

C9_Witness ==
    /\ CollateralCaptured
    /\ CaptureConfirmed
    /\ result.op = "collateral_capture"

\* What the last complete_lender_witness call read and computed.
LenderRead == result.lender.read
LenderSig == result.lender.sig_lender
LenderCtrl == result.lender.ctrl_block

\* The escrow scripts and address re-derived from the primitive parameters
\* of a signature file.
RederivedScripts(signature_data) ==
    get_leaf_scripts_output_0(signature_data.borrower_pubkey, signature_data.lender_pubkey,
                              signature_data.preimage_hash_borrower,
                              signature_data.borrower_timelock)
RederivedAddress(signature_data) ==
    get_nums_p2tr_addr_0(signature_data.borrower_pubkey, signature_data.lender_pubkey,
                         signature_data.preimage_hash_borrower,
                         signature_data.borrower_timelock)

\* Address strings a file may carry in place of the escrow address.
OtherAddressStrings ==
    {CollateralAddress, StandardAddress(LenderKey), StandardAddress(BorrowerKey),
     get_nums_p2tr_addr_0(BorrowerKey, LenderKey, PreimageHashLender, 1)}

\* The lender signs the file's transaction for the re-derived address and
\* the re-derived leaf at the file's leaf index.
LenderSignsRederived ==
    LenderSig = sign_taproot_input(LenderSig.s, from_raw(LenderRead.tx_hex).tx,
                                   RederivedAddress(LenderRead),
                                   to_satoshis(LenderRead.input_amount),
                                   RederivedScripts(LenderRead)[LenderRead.leaf_index + 1])

(***************************************************************************)
(* C10, as stated.  complete_lender_witness computes the lender's          *)
(* signature and the control block only from the escrow address, script    *)
(* tree and leaf script it re-derives from the primitive parameters: the   *)
(* signature is for the re-derived address and leaf, and the control block *)
(* is the one of the re-derived tree and of the re-derived address (its    *)
(* parity included).                                                       *)
(***************************************************************************)
C10_AsStated ==
    result.lender # NoLender =>
        /\ LenderSignsRederived
        /\ LenderCtrl = ControlBlock(NumsKey, RederivedScripts(LenderRead),
                                     LenderRead.leaf_index,
                                     IsOdd(RederivedAddress(LenderRead)))

(***************************************************************************)
(* C10, amended.  complete_lender_witness computes the lender's signature  *)
(* only from the escrow address and leaf script it re-derives from the     *)
(* file's primitive parameters, and the control block from the NUMS key    *)
(* and the re-derived tree together with the leaf index and the parity bit *)
(* (escrow_is_odd) read from the file; the address string carried in the   *)
(* file influences neither: with any other address string in its place the *)
(* same signature and control block are computed.                          *)
(***************************************************************************)
C10_AddressStringNeverTrusted ==
    result.lender # NoLender =>
        /\ LenderSignsRederived
        /\ LenderCtrl = ControlBlock(NumsKey, RederivedScripts(LenderRead),
                                     LenderRead.leaf_index, LenderRead.escrow_is_odd)
        /\ \A a \in OtherAddressStrings :
              \E w \in {LenderWitness([LenderRead EXCEPT !.escrow_address_script = a],
                                      LenderSig.s, Text(PreimageBorrower))} :
                  /\ w.sig_lender = LenderSig
                  /\ w.ctrl_block = LenderCtrl

\* The lender's call read a file whose address string was replaced, and its
\* transaction was accepted.
C10_Witness ==
    /\ result.lender # NoLender
    /\ LenderRead.escrow_address_script # RederivedAddress(LenderRead)
    /\ result.ok
    /\ EscrowSpentByE1

\* The leaves of the tree re-derived from a signature file.
RederivedLeaves(signature_data) ==
    {RederivedScripts(signature_data)[i] : i \in 1 .. 2}

(***************************************************************************)
(* C11.  A complete_lender_witness call that read a file whose leaf script *)
(* is not a leaf of the tree re-derived from the file's parameters fails   *)
(* before it produces a lender signature and before it sends anything to   *)
(* the node: whenever the call got as far as signing, the file's leaf      *)
(* script is one of the re-derived leaves.                                 *)
(***************************************************************************)
C11_ScriptMismatchRaised ==
    result.lender # NoLender =>
        LenderRead.tapleaf_script_hex \in RederivedLeaves(LenderRead)

(***************************************************************************)
(* C12.  Every file generate_borrower_signature writes records             *)
(* leaf_index = 1 and the hashlock + 2-of-2 leaf E1 of the escrow tree of  *)
(* its parameters, and the signature in it is over the script-path message *)
(* of that leaf for the escrow-to-collateral transaction of the file; it   *)
(* is never a signature for the CSV leaf E0.                               *)
(***************************************************************************)
C12_ExportSignsLeafE1 ==
    bundle # NoBundle =>
        /\ bundle.leaf_index = 1
        /\ bundle.tapleaf_script_hex = RederivedScripts(bundle)[2]
        /\ bundle.sig_borrower =
              sign_taproot_input(bundle.sig_borrower.s, from_raw(bundle.tx_hex).tx,
                                 RederivedAddress(bundle), to_satoshis(bundle.input_amount),
                                 RederivedScripts(bundle)[2])
        /\ bundle.sig_borrower.m.leaf # RederivedScripts(bundle)[1]

\* The borrower exported her signature for the loan's escrow, and the lender
\* has spent the escrow with it.
C12_Witness ==
    /\ bundle # NoBundle
    /\ bundle.sig_borrower.s = BorrowerKey
    /\ bundle.borrower_timelock = loan.borrower_timelock
    /\ SpendSignedBy("escrow", BorrowerKey, EscrowScripts[2])

\* The position (1-based) of the script element at which evaluation fails,
\* 0 when every element executes.
FirstFailure(script, stack, ctx) ==
    LET run[n \in 0 .. Len(script)] ==
            IF n = 0 THEN Running(stack) ELSE ExecNext(script[n], run[n - 1], ctx)
        failed == {n \in 1 .. Len(script) : ~run[n].ok}
    IN  IF failed = {} THEN 0 ELSE CHOOSE n \in failed : \A k \in failed : n <= k

(***************************************************************************)
(* C13.  For every complete_lender_witness call on a written file, the     *)
(* witness it assembles is [sig_borrower, sig_lender, preimage, leaf       *)
(* script, control block].  Evaluated against leaf E1 of the file's        *)
(* parameters, its first three items satisfy the script when the preimage  *)
(* bytes hash to preimage_hash_borrower and both signatures are valid for  *)
(* the spend; with preimage bytes of any other hash evaluation fails at    *)
(* OP_EQUALVERIFY.                                                         *)
(***************************************************************************)
C13_WitnessSatisfiesLeafE1 ==
    \A call \in LenderCalls :
        call[1] # NoBundle =>
            \E w \in {LenderWitness(call[1], call[2], call[3])},
               script \in {RederivedScripts(call[1])[2]} :
                LET msg == Sighash(w.tx, RederivedAddress(call[1]),
                                   to_satoshis(call[1].input_amount), script)
                    ctx == [msg |-> msg, sequence |-> w.tx.sequence]
                    args == SubSeq(w.witness, 1, 3)
                    good_preimage ==
                        Sha256Hex(LenderPreimageBytes(call[3])) = call[1].preimage_hash_borrower
                    good_signatures ==
                        /\ SchnorrVerify(call[1].sig_borrower,
                                         BytesItem(call[1].borrower_pubkey), msg)
                        /\ SchnorrVerify(w.sig_lender, BytesItem(call[1].lender_pubkey), msg)
                IN  /\ Len(w.witness) = 5
                    /\ w.witness[1] = call[1].sig_borrower
                    /\ w.witness[2] = w.sig_lender
                    /\ w.witness[3] = BytesItem(LenderPreimageBytes(call[3]))
                    /\ w.witness[4].t = "script"
                    /\ w.witness[5].t = "ctrl"
                    /\ (good_preimage /\ good_signatures) =>
                            /\ EvalScript(script, args, ctx)
                            /\ FirstFailure(script, args, ctx) = 0
                    /\ ~good_preimage =>
                            /\ ~EvalScript(script, args, ctx)
                            /\ script[FirstFailure(script, args, ctx)] = Op("OP_EQUALVERIFY")

\* The lender's call with the borrower's preimage was accepted: the escrow
\* is spent by a five-item witness holding the preimage in third place.
C13_Witness ==
    /\ result.op = "complete_lender_witness"
    /\ result.ok
    /\ Len(spend["escrow"].witness) = 5
    /\ spend["escrow"].witness[3] = BytesItem(PreimageBorrower)
    /\ WitnessScript(spend["escrow"].witness) = EscrowScripts[2]

(***************************************************************************)
(* C14.  A call of create_collateral_lock_tx or                            *)
(* create_collateral_transaction for an escrow output whose value is at    *)
(* most collateral_amount + origination fee fails, and it fails before a   *)
(* transaction is assembled: no call of either builder has returned, or    *)
(* has constructed its Transaction, for such an output.                    *)
(***************************************************************************)
C14_InsufficientFundsBeforeAssembly ==
    [][ \A collateral_amount \in CollateralAmounts :
          (/\ TxKnown("escrow")
           /\ InputAmount("escrow") <= collateral_amount + OrigFee)
          => /\ create_collateral_lock_tx(BorrowerKey, LenderKey, PreimageHashLender,
                    loan.lender_timelock, "escrow", OrigFee, collateral_amount)
                  => (~built'.ok /\ built'.tx = NoTx)
             /\ create_collateral_transaction(
                    CollateralRequest(loan.borrower_timelock, collateral_amount))
                  => (~built'.ok /\ built'.tx = NoTx)
      ]_vars

\* The file is the one the borrower's call for this loan wrote.
BundleOfLoan ==
    /\ bundle # NoBundle
    /\ bundle.sig_borrower.s = BorrowerKey
    /\ bundle.borrower_timelock = loan.borrower_timelock

\* A complete_lender_witness call on the file as written, with the lender's
\* key and the borrower's preimage, that mines only where blocks can be
\* generated.
CooperativeLenderCall(call) ==
    /\ call[1] = bundle
    /\ call[2] = LenderKey
    /\ Sha256Hex(LenderPreimageBytes(call[3])) = PreimageHashBorrower
    /\ (call[4] => call[5] = "regtest")

C16_ReleaseTxShape ==
    [][ \A tx_fee \in ReleaseFees, release_to_borrower \in BOOLEAN :
          (/\ TxOutKnown("collateral")
           /\ create_collateral_release_tx(BorrowerKey, LenderKey, "collateral", tx_fee,
                                           release_to_borrower))
          => IF InputAmount("collateral") <= tx_fee
             THEN ~built'.ok /\ built'.tx = NoTx
             ELSE /\ built'.ok
                  /\ built'.tx.in = "collateral"
                  /\ Len(built'.tx.outs) = 1
                  /\ built'.tx.outs[1].value = utxo["collateral"].amount - to_satoshis(tx_fee)
                  /\ built'.tx.outs[1].to =
                         StandardAddress(IF release_to_borrower THEN BorrowerKey
                                         ELSE LenderKey)
      ]_vars

\* A release transaction paying the lender was returned.
C16_Witness ==
    /\ built.op = "create_collateral_release_tx"
    /\ built.ok
    /\ built.tx.outs[1].to = StandardAddress(LenderKey)
    /\ built.tx.outs[1].value = to_satoshis(CollateralAmount - TxFee)

\* A text that is not 64 hexadecimal digits: its length is not 64 or one of
\* its characters is no hexadecimal digit of either case.
HexDigits == LowerHexDigits \cup {"A", "B", "C", "D", "E", "F"}

Malformed(text) ==
    LET chars == Characters(text)
    IN  \/ Len(chars) # 64
        \/ \E i \in DOMAIN chars : chars[i] \notin HexDigits

AssertionMessages ==
    {"Preimage hash must be a 64-character SHA256 hash",
     "Preimage hash must contain only hexadecimal characters"}

\* Whenever the call of the builder named op that call describes has just
\* ended, it raised one of messages and produced neither scripts nor an
\* address.
RejectedWith(messages, op, call) ==
    \/ built'.op # op
    \/ /\ ~built'.ok
       /\ built'.error \in messages
       /\ built'.scripts = << >>
       /\ built'.addr = NoAddr
    \/ ~call

(***************************************************************************)
(* C17.  Every call of get_leaf_scripts_output_0 / _1 and of               *)
(* get_nums_p2tr_addr_0 / _1 with a malformed preimage hash (length other  *)
(* than 64, or a character that is no hexadecimal digit) raises one of the *)
(* two assertion errors and produces neither scripts nor an address,       *)
(* whatever the timelock.                                                  *)
(***************************************************************************)
C17_MalformedHashRejected ==
    [][ \A preimage_hash \in HashArguments, timelock \in TimelockArguments :
          Malformed(preimage_hash) =>
            /\ RejectedWith(AssertionMessages, "get_leaf_scripts_output_0",
                  call_get_leaf_scripts_output_0(BorrowerKey, LenderKey, preimage_hash, timelock))
            /\ RejectedWith(AssertionMessages, "get_leaf_scripts_output_1",
                  call_get_leaf_scripts_output_1(BorrowerKey, LenderKey, preimage_hash, timelock))
            /\ RejectedWith(AssertionMessages, "get_nums_p2tr_addr_0",
                  call_get_nums_p2tr_addr_0(BorrowerKey, LenderKey, preimage_hash, timelock))
            /\ RejectedWith(AssertionMessages, "get_nums_p2tr_addr_1",
                  call_get_nums_p2tr_addr_1(BorrowerKey, LenderKey, preimage_hash, timelock))
      ]_vars

\* An address builder was called with 64 characters of which one is no
\* hexadecimal digit, and raised.
C17_Witness ==
    /\ built.op = "get_nums_p2tr_addr_0"
    /\ ~built.ok
    /\ built.error = "Preimage hash must contain only hexadecimal characters"
    /\ built.addr = NoAddr

BroadcastRejected(op) ==
    /\ result'.op = op
    /\ result'.verdict \notin {"", "ok"}

HandlerPrefixes == {LenderPrefix, ExitPrefix, ReleasePrefix, CapturePrefix}

\* The call failed after one broadcast, its error ends with the node's
\* message, and the node's state is what it was.
NodeErrorSurfaced ==
    /\ ~result'.ok
    /\ result'.broadcasts = 1
    /\ \E prefix \in HandlerPrefixes :
          result'.error = (prefix \o "Broadcast failed: ") \o result'.verdict
    /\ chain' = chain

(***************************************************************************)
(* C19.  Whenever the node rejects the broadcast of a                      *)
(* complete_lender_witness, borrower_exit_escrow, collateral_release or    *)
(* collateral_capture call, the call has broadcast once, fails with an     *)
(* error that contains the node's message, and leaves utxo and spend       *)
(* unchanged (no block is mined after a rejected broadcast either).        *)
(***************************************************************************)
C19_RejectedBroadcastSurfaced ==
    [][ /\ \A call \in LenderCalls :
              (/\ BroadcastRejected("complete_lender_witness")
               /\ complete_lender_witness(call[1], call[2], call[3], call[4], call[5]))
              => NodeErrorSurfaced
        /\ \A request \in ExitRequests :
              (BroadcastRejected("borrower_exit_escrow") /\ borrower_exit_escrow(request))
              => NodeErrorSurfaced
        /\ \A request \in ReleaseRequests :
              (BroadcastRejected("collateral_release") /\ collateral_release(request))
              => NodeErrorSurfaced
        /\ \A request \in CaptureRequests :
              (BroadcastRejected("collateral_capture") /\ collateral_capture(request))
              => NodeErrorSurfaced
      ]_vars

\* The node rejected the lender's broadcast for a witness that does not
\* satisfy the script, and the call failed with that message.
C19_Witness ==
    /\ result.op = "complete_lender_witness"
    /\ result.verdict = "mandatory-script-verify-flag-failed"
    /\ result.broadcasts = 1
    /\ result.error = (LenderPrefix \o "Broadcast failed: ") \o result.verdict

\* The inputs of a derivation: the parties' keys, a hash and a timelock.
DerivationInputs ==
    {BorrowerKey} \X {LenderKey} \X {PreimageHashBorrower, PreimageHashLender} \X Timelocks

\* The four inputs recorded in a signature file.
InputsOf(signature_data) ==
    << signature_data.borrower_pubkey, signature_data.lender_pubkey,
       signature_data.preimage_hash_borrower, signature_data.borrower_timelock >>

C21_BundleConsumedOnce ==
    [][ /\ \A call \in LenderCalls :
              (/\ result'.op = "complete_lender_witness"
               /\ result'.ok
               /\ complete_lender_witness(call[1], call[2], call[3], call[4], call[5]))
              => bundle' = NoBundle
        /\ (bundle # NoBundle => bundle' \in {bundle, NoBundle})
      ]_vars

\* The confirmations the node counts for txid now: -1 for a transaction
\* it does not know, 0 for one waiting in the mempool.
NodeConfirmations(txid) ==
    IF txid \notin Outpoints \/ utxo[txid].st = "none" THEN 0 - 1
    ELSE IF utxo[txid].st = "mempool" THEN 0
    ELSE utxo[txid].conf

(***************************************************************************)
(* C22.  get_transaction_status answers 'not_found' exactly when the node  *)
(* did not know the transaction at the call's get_transaction_info read.   *)
(* For a transaction the node knew then, it answers 'pending' exactly when *)
(* the transaction has zero confirmations at the call's get_confirmations  *)
(* read and 'confirmed' (with confirmed = true) exactly when it has at     *)
(* least one; no other status is ever answered.  An answer 'confirmed' or  *)
(* 'pending' stays true of the node as far as it says the transaction is   *)
(* known, and 'confirmed' as far as it says it is in a block.              *)
(***************************************************************************)
C22_StatusFollowsConfirmations ==
    /\ [][ /\ (query'.pc = "get_confirmations" /\ query.pc = "idle")
                => (query'.tx_info.known <=> NodeConfirmations(query'.txid) >= 0)
           /\ (query.pc = "get_confirmations" /\ query'.pc = "idle")
                => \E r \in {query'.response} :
                     /\ r.status \in {"pending", "confirmed", "not_found"}
                     /\ r.status = "not_found" <=> ~query.tx_info.known
                     /\ query.tx_info.known =>
                          /\ r.status = "pending" <=> NodeConfirmations(query.txid) = 0
                          /\ r.status = "confirmed" <=> NodeConfirmations(query.txid) >= 1
                          /\ r.confirmed <=> r.status = "confirmed"
                          /\ r.confirmations = NodeConfirmations(query.txid)
         ]_vars
    /\ [](query.pc = "idle" =>
            /\ query.response.status = "confirmed"
                  => NodeConfirmations(query.response.txid) >= 1
            /\ query.response.status = "pending"
                  => NodeConfirmations(query.response.txid) >= 0)

\* The lender's transaction was accepted and waits in the mempool, and a
\* status call about it answered 'pending'.
C22_Witness ==
    /\ query.pc = "idle"
    /\ query.response.txid = "collateral"
    /\ query.response.status = "pending"
    /\ utxo["collateral"].st = "mempool"

\* The escrow funding has its borrower_timelock confirmations and nothing
\* spends it at the node.
EscapeHatchOpen ==
    /\ Unspent("escrow")
    /\ Age("escrow") >= loan.borrower_timelock

\* The node's answer to the BorrowerExit transaction of the loan, were it
\* broadcast now.
ExitVerdict ==
    IF ~TxKnown("escrow") THEN "Escrow transaction not found"
    ELSE LET b == BorrowerExitTx(HonestExitRequest, InputAmount("escrow"))
         IN  NodeVerdict(b.tx, b.witness)

CsvBlocks(script) == script[1].n
CsvPosition == 2

\* The CSV spend b of the output at outpoint, with its nSequence set to
\* sequence and signed again by signer for that transaction.
Resequenced(b, outpoint, sequence, signer) ==
    LET tx == [b.tx EXCEPT !.sequence = sequence]
        sig == sign_taproot_input(signer, tx, utxo[outpoint].addr, utxo[outpoint].amount,
                                  WitnessScript(b.witness))
    IN  [tx |-> tx, witness |-> << sig, b.witness[2], b.witness[3] >>]

\* The node rejects spend (of the output at outpoint) because its script
\* fails at OP_CHECKSEQUENCEVERIFY.
RejectedAtCsv(spending, outpoint) ==
    /\ NodeVerdict(spending.tx, spending.witness) = "mandatory-script-verify-flag-failed"
    /\ WitnessScript(spending.witness)[CsvPosition] = Op("OP_CHECKSEQUENCEVERIFY")
    /\ FirstFailure(WitnessScript(spending.witness), WitnessArgs(spending.witness),
                    [msg |-> Sighash(spending.tx, utxo[outpoint].addr, utxo[outpoint].amount,
                                     WitnessScript(spending.witness)),
                     sequence |-> spending.tx.sequence]) = CsvPosition

\* A spend whose nSequence is below its leaf's timelock is rejected at any
\* age of the output: as non-BIP68-final while the output has fewer
\* confirmations than the nSequence, by the script from then on.
RejectedShort(spending, outpoint) ==
    IF Age(outpoint) < spending.tx.sequence
    THEN NodeVerdict(spending.tx, spending.witness) = "non-BIP68-final"
    ELSE RejectedAtCsv(spending, outpoint)

ShortExits ==
    {Resequenced(BorrowerExitTx(HonestExitRequest, InputAmount("escrow")),
                 "escrow", sequence, BorrowerKey) :
        sequence \in 1 .. loan.borrower_timelock - 1}

ShortCaptures ==
    {Resequenced(CollateralCaptureTx(HonestCaptureRequest, InputAmount("collateral")),
                 "collateral", sequence, LenderKey) :
        sequence \in 1 .. loan.lender_timelock - 1}

C25_BuildersReturnUnsigned ==
    [][ (/\ built'.op \in {"create_collateral_lock_tx", "create_collateral_release_tx"}
         /\ (CreateCollateralLockTx \/ CreateCollateralReleaseTx))
        => /\ built'.witnesses = << >>
           /\ built'.ok => (built'.tx.in \in Outpoints /\ built'.tx.outs # << >>)
           /\ chain' = chain
           /\ result' = result
      ]_vars

\* create_collateral_lock_tx returned the two-output transaction for a
\* funded escrow, which is still unspent at the node.
C25_Witness ==
    /\ built.op = "create_collateral_lock_tx"
    /\ built.ok
    /\ Len(built.tx.outs) = 2
    /\ built.witnesses = << >>
    /\ Unspent("escrow")
    /\ result = NoResult

\* A leaf with a relative timelock and no hashlock, and one with a hashlock
\* and no timelock.
IsCsvLeaf(script) ==
    /\ \E i \in DOMAIN script : script[i] = Op("OP_CHECKSEQUENCEVERIFY")
    /\ \A i \in DOMAIN script : script[i] # Op("OP_SHA256")
IsHashlockLeaf(script) ==
    /\ \E i \in DOMAIN script : script[i] = Op("OP_SHA256")
    /\ \A i \in DOMAIN script : script[i] # Op("OP_CHECKSEQUENCEVERIFY")

\* witness is built for the leaf at leaf_index (0-based) of scripts: that
\* leaf is the script it carries and the script every signature in it is
\* for, and its control block holds the path of that leaf (the other leaf).
UsesLeaf(witness, scripts, leaf_index) ==
    /\ WitnessScript(witness) = scripts[leaf_index + 1]
    /\ WitnessCtrl(witness).path = scripts[2 - leaf_index]
    /\ \A i \in DOMAIN witness :
          witness[i].t = "sig" => witness[i].m.leaf = scripts[leaf_index + 1]

ScriptsOutput0(r) ==
    get_leaf_scripts_output_0(r.borrower_pubkey, r.lender_pubkey,
                              r.preimage_hash_borrower, r.borrower_timelock)
ScriptsOutput1(r) ==
    get_leaf_scripts_output_1(r.borrower_pubkey, r.lender_pubkey,
                              r.preimage_hash_lender, r.lender_timelock)

\* The witness the lender's last call assembled (the preimage is not part
\* of what is looked at).
LastLenderWitness ==
    LenderWitness(LenderRead, LenderSig.s, Text(PreimageBorrower)).witness

\* What holds of the trees, of ExportBorrowerSignature and of the three
\* calls that take everything from their request.
IndexUsedByRequests ==
    /\ \A t \in Timelocks :
          /\ IsCsvLeaf(get_leaf_scripts_output_0(BorrowerKey, LenderKey,
                                                 PreimageHashBorrower, t)[1])
          /\ IsHashlockLeaf(get_leaf_scripts_output_0(BorrowerKey, LenderKey,
                                                      PreimageHashBorrower, t)[2])
          /\ IsCsvLeaf(get_leaf_scripts_output_1(BorrowerKey, LenderKey,
                                                 PreimageHashLender, t)[1])
          /\ IsHashlockLeaf(get_leaf_scripts_output_1(BorrowerKey, LenderKey,
                                                      PreimageHashLender, t)[2])
    /\ bundle # NoBundle =>
          /\ bundle.leaf_index = 1
          /\ bundle.tapleaf_script_hex = ScriptsOutput0(bundle)[2]
          /\ bundle.sig_borrower.m.leaf = ScriptsOutput0(bundle)[2]
    /\ TxKnown("escrow") =>
          \A request \in ExitRequests :
              UsesLeaf(BorrowerExitTx(request, InputAmount("escrow")).witness,
                       ScriptsOutput0(request), 0)
    /\ TxKnown("collateral") =>
          /\ \A request \in ReleaseRequests :
                UsesLeaf(CollateralReleaseTx(request, InputAmount("collateral")).witness,
                         ScriptsOutput1(request), 1)
          /\ \A request \in CaptureRequests :
                UsesLeaf(CollateralCaptureTx(request, InputAmount("collateral")).witness,
                         ScriptsOutput1(request), 0)

C27_ExitPaysExitAddress ==
    /\ TxKnown("escrow") =>
          \A request \in ExitRequests :
              \E b \in {BorrowerExitTx(request, InputAmount("escrow"))} :
                  /\ Len(b.tx.outs) = 1
                  /\ b.tx.outs[1].value
                        = to_satoshis(InputAmount("escrow") - request.exit_fee)
                  /\ b.tx.outs[1].to
                        = BorrowerExitResponseData(request, "escrow-exit").exit_address
    /\ (spend["escrow"].st # "none" /\ WitnessScript(spend["escrow"].witness) = EscrowScripts[1])
          => spend["escrow"].tx.outs[1].to = ExitAddress

(***************************************************************************)
(* C28.  Every POST /transactions/borrower-signature with a valid request  *)
(* for a funded escrow reaches signing: it succeeds and writes a signature *)
(* file that records the request's preimage_hash_borrower and              *)
(* borrower_timelock and holds a signature over leaf E1 of the tree        *)
(* derived from them.                                                      *)
(***************************************************************************)
C28_EndpointReachesSigning ==
    [][ \A request \in BorrowerSignatureRequests :
          (/\ result'.op \in {EndpointName, "generate_borrower_signature"}
           /\ TxKnown("escrow")
           /\ post_borrower_signature(request)
           /\ UNCHANGED << loan, utxo, spend, built, query, service >>)
          => /\ result'.ok
             /\ bundle' # NoBundle
             /\ bundle'.preimage_hash_borrower = request.request.preimage_hash_borrower
             /\ bundle'.borrower_timelock = request.request.borrower_timelock
             /\ bundle'.sig_borrower.m.leaf
                   = get_leaf_scripts_output_0(BorrowerKey, LenderKey,
                         request.request.preimage_hash_borrower,
                         request.request.borrower_timelock)[2]
      ]_vars

\* The witness list of the transaction the lender's last call serialized
\* and broadcast, and the list the transaction hex it read already held.
BroadcastWitnesses == result.lender.witnesses
WitnessesRead == from_raw(LenderRead.tx_hex).witnesses

(***************************************************************************)
(* C29.  The transaction a complete_lender_witness call broadcasts carries *)
(* exactly one witness stack, the one that call assembled (the file's      *)
(* borrower signature, the lender's signature, the preimage, the file's    *)
(* leaf script and the control block), whether or not the transaction hex  *)
(* of the file it read already carried witness stacks; it is the witness   *)
(* of the escrow spend the node accepted from that call.                   *)
(***************************************************************************)
C29_BroadcastCarriesLenderWitnessOnly ==
    result.lender # NoLender =>
        /\ result.broadcasts = 1
        /\ Len(BroadcastWitnesses) = 1
        /\ \E w \in {BroadcastWitnesses[1]} :
              /\ Len(w) = 5
              /\ w[1] = LenderRead.sig_borrower
              /\ w[2] = LenderSig
              /\ WitnessScript(w) = LenderRead.tapleaf_script_hex
              /\ WitnessCtrl(w) = LenderCtrl
              /\ \A i \in DOMAIN WitnessesRead : WitnessesRead[i] # w
              /\ result.verdict = "ok" => spend["escrow"].witness = w

\* The lender's call read a file whose transaction hex already carried a
\* witness stack, and the node accepted the transaction it broadcast.
C29_Witness ==
    /\ result.lender # NoLender
    /\ WitnessesRead # << >>
    /\ result.ok
    /\ spend["escrow"].st # "none"
    /\ spend["escrow"].witness = BroadcastWitnesses[1]

\* A call of a Loan method raised ValueError with the message of that
\* method and left the loan as it was.
LoanRaised(op, verb) ==
    /\ ~built'.ok
    /\ built'.error = "Cannot " \o verb \o " loan with status: LoanStatus." \o loan.status
    /\ loan' = loan

\* A call of a Loan method returned and moved the status to target, the
\* rest of the loan as it was.
LoanMoved(target) ==
    /\ built'.ok
    /\ loan' = [loan EXCEPT !.status = target]

(***************************************************************************)
(* C30.  Loan.accept and Loan.reject return only when the status is        *)
(* PENDING, leaving it ACTIVE and LOAN_INIT_FAILED respectively, and       *)
(* Loan.complete returns only when the status is ACTIVE, leaving it        *)
(* REPAID; called in any other status each raises ValueError ("Cannot      *)
(* ... loan with status: ...") and the status is unchanged.                *)
(***************************************************************************)
C30_LoanStatusTransitions ==
    [][ /\ (built'.op = "Loan.accept" /\ LoanAccept)
              => IF loan.status = "PENDING" THEN LoanMoved("ACTIVE")
                                            ELSE LoanRaised("Loan.accept", "accept")
        /\ (built'.op = "Loan.reject" /\ LoanReject)
              => IF loan.status = "PENDING" THEN LoanMoved("LOAN_INIT_FAILED")
                                            ELSE LoanRaised("Loan.reject", "reject")
        /\ (built'.op = "Loan.complete" /\ LoanComplete)
              => IF loan.status = "ACTIVE" THEN LoanMoved("REPAID")
                                           ELSE LoanRaised("Loan.complete", "complete")
      ]_vars

\* A loan constructed PENDING was accepted and completed, and a further
\* accept raised.
C30_Witness ==
    /\ loan.status = "REPAID"
    /\ built.op = "Loan.accept"
    /\ ~built.ok
    /\ built.error = "Cannot accept loan with status: LoanStatus.REPAID"

(***************************************************************************)
(* C31.  For an output that exists or existed, an is_utxo_spent call whose *)
(* request the node answered returns True exactly when the output is spent *)
(* and False when it is unspent, and a call whose request to the node      *)
(* failed does not return True.                                            *)
(***************************************************************************)
C31_FailureNeverReportedSpent ==
    [][ (query'.op = "is_utxo_spent" /\ IsUtxoSpent /\ TxKnown(query'.txid))
          => IF query'.failed THEN ~query'.is_spent
                              ELSE (query'.is_spent <=> ~Unspent(query'.txid))
      ]_vars

(***************************************************************************)
(* C32.  A complete_lender_witness call that raises has put no transaction *)
(* into the node, and a call whose broadcast the node accepted returns     *)
(* the txid, whatever mine_block and the network are.                      *)
(***************************************************************************)
C32_FailedLenderCallSentNothing ==
    result.op = "complete_lender_witness" =>
        /\ ~result.ok => result.verdict # "ok"
        /\ result.verdict = "ok" => result.ok /\ result.error = ""

(***************************************************************************)
(* C33.  complete_lender_witness produces a lender signature only for leaf *)
(* E1 (index 1) of the escrow tree: a call that read a file whose          *)
(* leaf_index is not 1 produces no lender signature and sends nothing to   *)
(* the node.                                                               *)
(***************************************************************************)
C33_LenderSignsOnlyLeafE1 ==
    /\ result.lender # NoLender =>
          /\ LenderRead.leaf_index = 1
          /\ LenderSig.m.leaf = RederivedScripts(LenderRead)[2]
    /\ (result.op = "complete_lender_witness" /\ result.broadcasts > 0)
          => result.lender # NoLender /\ LenderRead.leaf_index = 1

(***************************************************************************)
(* C34.  Every signature file generate_borrower_signature writes holds a   *)
(* borrower signature over an escrow-to-collateral transaction whose       *)
(* outputs (collateral amount and origination fee) sum to strictly less    *)
(* than the value of the escrow output it spends.                          *)
(***************************************************************************)
C34_ExportNeverOverspends ==
    bundle # NoBundle =>
        \E tx \in {from_raw(bundle.tx_hex).tx} :
            /\ bundle.sig_borrower.m.tx = tx
            /\ OutSum(tx.outs) < utxo[tx.in].amount

(***************************************************************************)
(* C35.  For the pair generate_preimage returns, the preimage string       *)
(* passed unchanged to complete_lender_witness or to collateral_release    *)
(* yields a witness preimage whose SHA-256 is the returned hash.           *)
(***************************************************************************)
C35_GeneratedPreimageOpensHashlock ==
    [][ /\ (/\ result'.op = "complete_lender_witness"
            /\ result'.lender # NoLender
            /\ LenderUsesGeneratedPreimage)
              => Sha256Item(result'.lender.witnesses[1][3])
                    = BytesItem(generate_preimage(PreimageBorrower)[2])
        /\ (/\ result'.op = "collateral_release"
            /\ result'.broadcasts = 1
            /\ ReleaseUsesGeneratedPreimage)
              => \E b \in {CollateralReleaseTx(GeneratedReleaseRequest,
                                               InputAmount("collateral"))} :
                    Sha256Item(b.witness[2]) = BytesItem(generate_preimage(PreimageLender)[2])
      ]_vars

(***************************************************************************)
(* C36.  Whenever an access of the rpc property returned a connection, a   *)
(* getblockchaininfo probe has answered and the wallet is initialized:     *)
(* the flag is set and the connection is the one to the wallet endpoint.   *)
(***************************************************************************)
C36_ReturnedConnectionInitialized ==
    service.access = "returned" =>
        /\ service.probed
        /\ service.wallet_initialized
        /\ service.rpc_connection = "wallet"

\* The status describes an existing output: a positive value and the
\* output's address.
DescribesUtxo(status) == status.value > 0 /\ status.address # NoAddr

(***************************************************************************)
(* C37.  Every status monitor_utxo_status returns after both of its reads  *)
(* of the node were answered is a consistent snapshot: is_spent is false   *)
(* exactly when value and address describe an existing output, also when   *)
(* the output is spent between the two reads.                              *)
(***************************************************************************)
C37_MonitorSnapshotConsistent ==
    (/\ query.op = "monitor_utxo_status"
     /\ query.pc = "idle"
     /\ ~query.failed)
        => (~query.utxo_status.is_spent <=> DescribesUtxo(query.utxo_status))

\* The borrower's escape hatch is legal at a height: the loan has not been
\* activated and timelock_0 has passed.
EscapeHatchLegal(height) == loan.status = "PENDING" /\ height >= loan.borrower_timelock

(***************************************************************************)
(* C38.  Loan.can_be_spent_by_borrower(height) returns True whenever the   *)
(* loan's status is PENDING and height >= timelock_0.                      *)
(***************************************************************************)
C38_EscapeHatchReported ==
    [][ \A height \in BlockHeights :
          (/\ built'.op = "Loan.can_be_spent_by_borrower"
           /\ EscapeHatchLegal(height)
           /\ built' = [BuildReturned("Loan.can_be_spent_by_borrower", NoTx) EXCEPT
                           !.returned = BoolText(can_be_spent_by_borrower(loan, height))]
           /\ UNCHANGED << loan, utxo, spend, bundle, exported, result, query, service >>)
          => built'.returned = "True"
      ]_vars

(***************************************************************************)
(* C39.  For every configuration whose timelocks are positive EVM block    *)
(* counts, every block count get_timelock returns (for_bitcoin=True        *)
(* included) is a positive integer.                                        *)
(***************************************************************************)
C39_BitcoinTimelockPositive ==
    (built.op = "get_timelock" /\ built.ok) => built.blocks > 0

\* The statuses accept, reject and complete do not leave.
FinalStatuses == LoanStatus \ {"PENDING", "ACTIVE"}

(***************************************************************************)
(* C40.  No call of accept, reject or complete brings a Loan into          *)
(* DEFAULTED or SEIZED from another status, and a Loan whose status is     *)
(* UNKNOWN, REPAID, LOAN_INIT_FAILED, DEFAULTED or SEIZED keeps its status *)
(* under these calls.                                                      *)
(***************************************************************************)
C40_FinalStatusesAbsorbing ==
    [][ /\ loan'.status \in {"DEFAULTED", "SEIZED"} => loan.status = loan'.status
        /\ loan.status \in FinalStatuses => loan'.status = loan.status
      ]_vars

\* reject was called on a loan whose status is REPAID: it raised and the
\* status is still REPAID.
C40_Witness ==
    /\ loan.status = "REPAID"
    /\ built.op = "Loan.reject"
    /\ ~built.ok

====
